---- MODULE Spec2Model ----
(***************************************************************************)
(* Model of the misconfiguration helper (mch): the issue-lifecycle         *)
(* reconciliation of the ACAO scanner (src/mch/scanners/acao.py) and the   *)
(* port baseline of the port scanner (src/mch/scanners/ports.py), together *)
(* with the acknowledgment session of the command line (src/mch/cli.py)    *)
(* and the state store's load (src/mch/state.py); the concurrency gate and *)
(* the retry loops of the probe functions scan_port, scan_path,            *)
(* check_endpoint and probe_scheme; the fuzz scanner                       *)
(* (src/mch/scanners/fuzz.py); the classification of the ACAO values and   *)
(* one whole run of the ACAO scanner; the scan command's loop over hosts   *)
(* and scanners (async_scan, src/mch/cli.py); the state store's file names *)
(* under the targets the command line accepts; the setup of run_async      *)
(* under the list-typed settings; the reconciliation of the legacy         *)
(* scanners (src/mch/scanners/acao_leak.py, acao_weak.py); and the         *)
(* document of one target over port scans, fuzz scans and ack sessions.    *)
(*                                                                         *)
(* The persisted document is a JSON file: between two operations every     *)
(* list holds plain values.  Within one run of a scanner the issue         *)
(* dictionaries are shared objects, so the model keeps references (list    *)
(* positions) while a run is in progress and copies values when the run    *)
(* writes its result.                                                      *)
(***************************************************************************)
EXTENDS Integers, Sequences, FiniteSets, TLC

VARIABLES
    issues,        \* acao: state["acao"]["issues"], a list of issue records
    prior,         \* acao: state_issues as loaded by the last run_async
    found,         \* acao: the issues built at acao.py:111-118 by the last run, in order
    returned,      \* acao: results["issues"] of the last run (identities)
    aop,           \* acao: the last operation, "init" | "scan" | "ack"
    repeat,        \* acao: the last two operations were runs that classified the same issues
    acknowledged,  \* ports: state["ports"]["acknowledged"], a list of ports
    current_open,  \* ports: state["ports"]["current_open"], a list of ports
    new_ports,     \* ports: results["new_ports"] of the run, if the last operation is a run
    scan_range,    \* ports: the ports.range setting of that run
    answers,       \* ports: per port, how it answered the connection attempts of that run
    open_before,   \* ports: current_open as that run loaded it
    stored,        \* ports: the target's state file exists
    pop,           \* ports: the last operation, "init" | "scan" | "ack"
    gkind,         \* gate: the scanner whose batch of probes runs, "none" if no batch
    glimit,        \* gate: the value the batch's semaphore was created with
    gvalue,        \* gate: the semaphore's current value
    gqueued,       \* gate: probes of the batch that have not started their first attempt
    gattempting,   \* gate: probes awaiting the network call of an attempt
    gsleeping,     \* gate: probes in the backoff sleep between two attempts
    gdone,         \* gate: probes that have returned
    pkind,         \* probe: the probe function of the batch, "none" if no batch
    pvalue,        \* probe: the value of the batch's semaphore
    ppc,           \* probe: per probe, "queued" | "attempting" | "sleeping" | "returned"
    ptrace,        \* probe: per probe, the outcomes of its attempts so far
    presult,       \* probe: per probe, what the probe function returned
    pcounted,      \* probe: per probe, how often it incremented the scanned count
    pscanned,      \* probe: the scanner's scanned count
    fuzz_issues,   \* fuzz: state["fuzz"]["issues"], a list of URLs
    fuzz_prior,    \* fuzz: state["fuzz"]["issues"] as the last run found it
    fuzz_found,    \* fuzz: results["found"] of the last run
    fheads,        \* fuzz: per scheme, how "/" answered the HEAD attempts of that run
    fgets,         \* fuzz: per scheme and path, how the path answered the GET attempts
    fwords,        \* fuzz: the words of the wordlist of that run, in order
    ftasks,        \* fuzz: per scheme, the paths of the scan_path tasks of that run, in order
    ftotal,        \* fuzz: total_paths of that run
    fop,           \* fuzz: the last operation, "init" | "load" | "scan"
    cscheme,       \* classify: the scheme of the probe whose answer is classified
    corigin,       \* classify: the Origin header that probe sent
    cacao,         \* classify: the candidate, one value of the answer's ACAO header
    cconfirm,      \* classify: the ACAO values a confirmation probe is answered with
    cresult,       \* classify: what the classification of the candidate came to
    cpc,           \* classify: "input" | "classified"
    ranswers,      \* run: per task of an ACAO run, what check_endpoint returned
    rconfirm,      \* run: how the server answers the confirmation probes of that run
    rfound,        \* run: the issues the run built, each with the task it came from
    rissues,       \* run: state["acao"]["issues"] after the run
    rend,          \* run: "init" | "stored" | "aborted"
    rscanned,      \* run: endpoints_scanned of the scanner
    rtotal,        \* run: total_endpoints of the scanner
    khost,         \* cli: the position in all_hosts of the host async_scan works on
    kphase,        \* cli: "create" | "poll" | "saved" | "end"
    knext,         \* cli: the position in scan_types of the next scanner to build
    ktask,         \* cli: per scan type of that host, where its scanner and task are
    kraised,       \* cli: the scan types of that host whose task ended with an exception
    kerrors,       \* cli: the scan types named in errors for that host
    khost_state,   \* cli: host_state, per section whether it is a scanner's section
    kstore,        \* cli: per host, the document in its state file, by section
    ksaves,        \* cli: the calls of save_state for that host, in order
    kdone,         \* cli: the hosts whose document async_scan has saved
    sfiles,        \* store: per state file name, the document in the file, if any
    ssaved,        \* store: per target, the document last saved for it, if any
    sloaded,       \* store: the target and the result of load_state, if the last operation is one
    slast,         \* store: the target and the document of the last save_state, if any
    qendpoints,    \* config: the value of acao.endpoints in the configuration
    qorigins,      \* config: the value of acao.malicious_origins
    qwordlist,     \* config: the value of fuzz.wordlist
    qscanner,      \* config: the scanner whose run_async was called, "none" before
    qsetup,        \* config: how the setup of that run_async ended
    ddoc,          \* doc: the document of the target as the last command left it
    dfile,         \* doc: whether the state file of the target exists
    dloaded,       \* doc: the document as the last command loaded it
    dop,           \* doc: the last command, "init" | "ports" | "fuzz" | "ack"
    dshown,        \* doc: the URLs the last ack session asked about, in order
    danswers       \* doc: the answers given to those prompts, in order

acaoVars == <<issues, prior, found, returned, aop, repeat>>
portVars == <<acknowledged, current_open, new_ports, scan_range, answers,
              open_before, stored, pop>>
gateVars == <<gkind, glimit, gvalue, gqueued, gattempting, gsleeping, gdone>>
probeVars == <<pkind, pvalue, ppc, ptrace, presult, pcounted, pscanned>>
fuzzVars == <<fuzz_issues, fuzz_prior, fuzz_found, fheads, fgets, fwords, ftasks,
              ftotal, fop>>
classVars == <<cscheme, corigin, cacao, cconfirm, cresult, cpc>>
\* the variables of the scanners' runs
scanVars == <<acaoVars, portVars, gateVars, probeVars, fuzzVars>>
\* the variables of the sections that follow the scanners' runs
runVars == <<ranswers, rconfirm, rfound, rissues, rend, rscanned, rtotal>>
cliVars == <<khost, kphase, knext, ktask, kraised, kerrors, khost_state, kstore,
             ksaves, kdone>>
storeVars == <<sfiles, ssaved, sloaded, slast>>
cfgVars == <<qendpoints, qorigins, qwordlist, qscanner, qsetup>>
docVars == <<ddoc, dfile, dloaded, dop, dshown, danswers>>
moreVars == <<cfgVars, docVars>>
restVars == <<classVars, runVars, cliVars, storeVars, moreVars>>
vars == <<issues, prior, found, returned, aop, repeat, acknowledged, current_open,
          new_ports, scan_range, answers, open_before, stored, pop,
          gkind, glimit, gvalue, gqueued, gattempting, gsleeping, gdone,
          pkind, pvalue, ppc, ptrace, presult, pcounted, pscanned,
          fuzz_issues, fuzz_prior, fuzz_found, fheads, fgets, fwords, ftasks, ftotal,
          fop, cscheme, corigin, cacao, cconfirm, cresult, cpc,
          ranswers, rconfirm, rfound, rissues, rend, rscanned, rtotal,
          khost, kphase, knext, ktask, kraised, kerrors, khost_state, kstore, ksaves,
          kdone, sfiles, ssaved, sloaded, slast,
          qendpoints, qorigins, qwordlist, qscanner, qsetup,
          ddoc, dfile, dloaded, dop, dshown, danswers>>

\* The sections of the document the other scanner owns are left as the
\* default state has them (state.py:35-41).
AcaoIdle ==
    /\ issues = <<>>
    /\ prior = <<>>
    /\ found = <<>>
    /\ returned = <<>>
    /\ aop = "init"
    /\ repeat = FALSE

PortsIdle ==
    /\ acknowledged = <<>>
    /\ current_open = <<>>
    /\ new_ports = <<>>
    /\ scan_range = <<"malformed">>
    /\ answers = <<>>
    /\ open_before = <<>>
    /\ stored = FALSE
    /\ pop = "init"

\* No batch of probes has been created: a scanner is constructed with a
\* scanned count of 0 and without a semaphore (ports.py:10-17, fuzz.py:11-18,
\* acao.py:11-18).
GateIdle ==
    /\ gkind = "none"
    /\ glimit = 0
    /\ gvalue = 0
    /\ gqueued = 0
    /\ gattempting = 0
    /\ gsleeping = 0
    /\ gdone = 0

ProbeIdle ==
    /\ pkind = "none"
    /\ pvalue = 0
    /\ ppc = <<>>
    /\ ptrace = <<>>
    /\ presult = <<>>
    /\ pcounted = <<>>
    /\ pscanned = 0

FuzzIdle ==
    /\ fuzz_issues = <<>>
    /\ fuzz_prior = <<>>
    /\ fuzz_found = <<>>
    /\ fheads = <<>>
    /\ fgets = <<>>
    /\ fwords = <<>>
    /\ ftasks = <<>>
    /\ ftotal = 0
    /\ fop = "init"

\* No answer of a probe has been classified.
ClassIdle ==
    /\ cscheme = ""
    /\ corigin = <<>>
    /\ cacao = <<>>
    /\ cconfirm = <<>>
    /\ cresult = <<>>
    /\ cpc = "input"

\* No ACAO run on a new document has been made.
RunIdle ==
    /\ ranswers = <<>>
    /\ rconfirm = ""
    /\ rfound = <<>>
    /\ rissues = <<>>
    /\ rend = "init"
    /\ rscanned = 0
    /\ rtotal = 0

\* The scan command has not been started.
CliIdle ==
    /\ khost = 0
    /\ kphase = "end"
    /\ knext = 0
    /\ ktask = <<>>
    /\ kraised = {}
    /\ kerrors = {}
    /\ khost_state = <<>>
    /\ kstore = <<>>
    /\ ksaves = <<>>
    /\ kdone = {}

\* The state store is not in use.
StoreIdle ==
    /\ sfiles = <<>>
    /\ ssaved = <<>>
    /\ sloaded = <<>>
    /\ slast = <<>>

\* No configuration is under test.
CfgIdle ==
    /\ qendpoints = <<>>
    /\ qorigins = <<>>
    /\ qwordlist = <<>>
    /\ qscanner = "none"
    /\ qsetup = <<>>

\* _default_state (state.py:35-41): the ports and fuzz sections, and the
\* issues of state["acao"], which AcaoScanner adds (acao.py:50-53)
DefaultDocument ==
    [ports |-> [acknowledged |-> <<>>, current_open |-> <<>>],
     fuzz |-> [issues |-> <<>>, will_fix |-> <<>>, false_positive |-> <<>>,
               wont_fix |-> <<>>],
     acao |-> <<>>]

DocIdle ==
    /\ ddoc = DefaultDocument
    /\ dfile = FALSE
    /\ dloaded = DefaultDocument
    /\ dop = "init"
    /\ dshown = <<>>
    /\ danswers = <<>>

MoreIdle == CfgIdle /\ DocIdle

RestIdle == ClassIdle /\ RunIdle /\ CliIdle /\ StoreIdle /\ MoreIdle

\* every section written before the configuration section is idle
BaseIdle ==
    /\ AcaoIdle
    /\ PortsIdle
    /\ GateIdle
    /\ ProbeIdle
    /\ FuzzIdle
    /\ ClassIdle
    /\ RunIdle
    /\ CliIdle
    /\ StoreIdle

----------------------------------------------------------------------------
(* Generic helpers *)

Range(s) == {s[i] : i \in 1..Len(s)}

MinOf(S) == CHOOSE x \in S : \A y \in S : x <= y

RECURSIVE SeqsUpTo(_, _)
\* all sequences over S of length at most n
SeqsUpTo(S, n) ==
    IF n = 0 THEN {<<>>}
    ELSE LET shorter == SeqsUpTo(S, n - 1)
         IN  shorter \cup {Append(s, x) : s \in {t \in shorter : Len(t) = n - 1}, x \in S}

----------------------------------------------------------------------------
(* ACAO issues *)

\* Bounds of the model
MaxIssues == 3
MaxFound == 2

Target == "test.local"

Statuses == {"uncategorized", "will_fix", "false_positive", "wont_fix", "resolved", "fixed"}

\* The identities the classification produces in this model: the arbitrary
\* origin reflected on either scheme.
Identities ==
    { [scheme |-> "http",  hostname |-> Target, endpoint |-> "/",
       weak_type |-> "arbitrary", detail |-> "http://evil.com"],
      [scheme |-> "https", hostname |-> Target, endpoint |-> "/",
       weak_type |-> "arbitrary", detail |-> "http://evil.com"] }

\* the issue dictionary built at acao.py:111-118
NewIssue(k) ==
    [scheme |-> k.scheme, hostname |-> k.hostname, endpoint |-> k.endpoint,
     weak_type |-> k.weak_type, detail |-> k.detail, status |-> "uncategorized"]

WithStatus(k, s) == [NewIssue(k) EXCEPT !.status = s]

\* issue_key, acao.py:119, 130, 207
IssueKey(i) == <<i.scheme, i.hostname, i.endpoint, i.weak_type, i.detail>>

\* the field-by-field comparison of _handle_issue, acao.py:209-213
SameIdentity(a, b) ==
    /\ a.scheme = b.scheme
    /\ a.hostname = b.hostname
    /\ a.endpoint = b.endpoint
    /\ a.weak_type = b.weak_type
    /\ a.detail = b.detail

\* HandleExisting with the "fixed" branch (acao.py:215-218) left out
HandleExistingForgetsFixed(status) ==
    IF status \in {"false_positive", "resolved"}
    THEN [status |-> "uncategorized", returns |-> "existing"]
    ELSE [status |-> status, returns |-> "none"]

\* HandleExisting returning the stored issue instead of None at acao.py:229
HandleExistingReturnsOpen(status) ==
    IF status \in {"fixed", "false_positive", "resolved"}
    THEN [status |-> "uncategorized", returns |-> "existing"]
    ELSE IF status \in {"uncategorized", "will_fix"}
    THEN [status |-> status, returns |-> "existing"]
    ELSE [status |-> status, returns |-> "none"]

\* HandleExisting returning the stored issue instead of None at acao.py:232
HandleExistingReturnsWontFix(status) ==
    IF status \in {"fixed", "false_positive", "resolved"}
    THEN [status |-> "uncategorized", returns |-> "existing"]
    ELSE IF status = "wont_fix"
    THEN [status |-> status, returns |-> "existing"]
    ELSE [status |-> status, returns |-> "none"]

\* HandleExisting returning None for the stored issue it has reset
HandleExistingRegressesSilently(status) ==
    IF status \in {"fixed", "false_positive", "resolved"}
    THEN [status |-> "uncategorized", returns |-> "none"]
    ELSE [status |-> status, returns |-> "none"]

\* _handle_issue on the first stored issue of the same identity, by its status
\* (acao.py:214-233): the status it is left with, and whether the stored
\* object is returned (and so appended to detected_issues) or None
HandleExisting(status) ==
    IF status \in {"fixed", "false_positive", "resolved"}
    THEN [status |-> "uncategorized", returns |-> "existing"]
    ELSE [status |-> status, returns |-> "none"]

\* _handle_issue (acao.py:206-235) on state_issues st.  The result holds the
\* list after the in-place mutation and what is returned: ref = 0 and
\* returns = "new" for the issue passed in, ref = i for the stored object
\* st[i], returns = "none" for None.
HandleIssue(issue, st) ==
    LET matches == {i \in 1..Len(st) : SameIdentity(st[i], issue)}
    IN  IF matches = {}
        THEN [st |-> st, returns |-> "new", ref |-> 0]
        ELSE LET i == MinOf(matches)
                 h == HandleExisting(st[i].status)
             IN  [st |-> [st EXCEPT ![i].status = h.status],
                  returns |-> h.returns,
                  ref |-> IF h.returns = "existing" THEN i ELSE 0]

\* the guard of acao.py:120 without the detected_keys test
NeverAlreadyDetected(key, detected_keys) == FALSE

\* the guard of acao.py:120
AlreadyDetected(key, detected_keys) == key \in detected_keys

RECURSIVE FirstPass(_, _, _)
\* The loop of acao.py:72-126 over the issues the classification built, from
\* position n on.  acc holds detected_keys, state_issues (mutated in place),
\* detected_issues (each entry a reference to a stored object, or a new
\* issue) and results["issues"].
FirstPass(fnd, n, acc) ==
    IF n > Len(fnd) THEN acc
    ELSE LET issue == fnd[n]
             key == IssueKey(issue)
         IN  IF AlreadyDetected(key, acc.detected_keys)
             THEN FirstPass(fnd, n + 1, acc)
             ELSE LET h == HandleIssue(issue, acc.st)
                      entry == [ref |-> h.ref, issue |-> issue]
                      status == IF h.ref = 0 THEN issue.status ELSE h.st[h.ref].status
                      handled == h.returns # "none"
                  IN  FirstPass(fnd, n + 1,
                        [detected_keys |-> acc.detected_keys \cup {key},
                         st |-> h.st,
                         detected_issues |->
                            IF handled THEN Append(acc.detected_issues, entry)
                            ELSE acc.detected_issues,
                         results |->
                            IF handled /\ status \in {"uncategorized", "will_fix"}
                            THEN Append(acc.results, key)
                            ELSE acc.results])

\* acao.py:131-137: the status of a stored issue whose key was detected
RedetectedStatus(status) ==
    IF status = "resolved" THEN "uncategorized" ELSE status

\* MissingOutcome with the policy of acao_leak.py:136-143 for wont_fix
MissingOutcomeLegacy(status) ==
    IF status \in {"uncategorized", "will_fix"} THEN [keep |-> TRUE, status |-> "resolved"]
    ELSE IF status = "wont_fix" THEN [keep |-> TRUE, status |-> "fixed"]
    ELSE IF status = "false_positive" THEN [keep |-> TRUE, status |-> status]
    ELSE [keep |-> FALSE, status |-> status]

\* acao.py:138-149: a stored issue whose key was not detected, by its status:
\* whether it is appended to new_issues, and with which status
MissingOutcome(status) ==
    IF status \in {"uncategorized", "will_fix"} THEN [keep |-> TRUE, status |-> "resolved"]
    ELSE IF status = "wont_fix" THEN [keep |-> TRUE, status |-> "resolved"]
    ELSE IF status = "false_positive" THEN [keep |-> TRUE, status |-> status]
    ELSE [keep |-> FALSE, status |-> status]

\* acao.py:128-149, the in-place mutation of the stored issues
SecondPassStatus(st, detected_keys) ==
    [i \in 1..Len(st) |->
        IF IssueKey(st[i]) \in detected_keys
        THEN [st[i] EXCEPT !.status = RedetectedStatus(st[i].status)]
        ELSE [st[i] EXCEPT !.status = MissingOutcome(st[i].status).status]]

RECURSIVE KeptFrom(_, _, _)
\* acao.py:128-149, new_issues as the positions of the stored issues kept, in order
KeptFrom(st, detected_keys, n) ==
    IF n > Len(st) THEN <<>>
    ELSE LET rest == KeptFrom(st, detected_keys, n + 1)
         IN  IF IssueKey(st[n]) \in detected_keys \/ MissingOutcome(st[n].status).keep
             THEN <<n>> \o rest
             ELSE rest

\* acao.py:56-150: the reconciliation of one run, from the stored issues and
\* the issues the classification built; issues is what line 150 writes,
\* results is results["issues"].
Reconcile(state_issues, fnd) ==
    LET first == FirstPass(fnd, 1, [detected_keys |-> {}, st |-> state_issues,
                                    detected_issues |-> <<>>, results |-> <<>>])
        kept == KeptFrom(first.st, first.detected_keys, 1)
        st2 == SecondPassStatus(first.st, first.detected_keys)
        new_issues == [j \in 1..Len(kept) |-> st2[kept[j]]]
        detected_issues ==
            [j \in 1..Len(first.detected_issues) |->
                IF first.detected_issues[j].ref = 0
                THEN first.detected_issues[j].issue
                ELSE st2[first.detected_issues[j].ref]]
    IN  [issues |-> new_issues \o detected_issues,
         results |-> first.results,
         detected_keys |-> first.detected_keys]

\* the answers of a prompt of the acknowledgment session, cli.py:308
Responses == {"will_fix", "false_positive", "wont_fix", "skip"}

\* cli.py:303-314: the issues listed for acknowledgment (by position)
Uncategorized(st) == {i \in 1..Len(st) : st[i].status = "uncategorized"}

\* cli.py:311-313: the status an answer leaves
Answered(status, response) ==
    IF response \in {"will_fix", "false_positive", "wont_fix"} THEN response ELSE status

\* cli.py:303-314, 328: one acknowledgment session over the issue list
AckIssues(st, resp) ==
    [i \in 1..Len(st) |->
        IF i \in Uncategorized(st)
        THEN [st[i] EXCEPT !.status = Answered(st[i].status, resp[i])]
        ELSE st[i]]

\* Persisted lists the first run may load: pairwise distinct identities,
\* any status.
DistinctLists ==
    {s \in SeqsUpTo(Identities \X Statuses, Cardinality(Identities)) :
        \A i, j \in 1..Len(s) : i # j => s[i][1] # s[j][1]}

AcaoInit ==
    /\ \E s \in DistinctLists :
          /\ Len(s) <= MaxIssues
          /\ issues = [i \in 1..Len(s) |-> WithStatus(s[i][1], s[i][2])]
    /\ prior = issues
    /\ found = <<>>
    /\ returned = <<>>
    /\ aop = "init"
    /\ repeat = FALSE
    /\ PortsIdle
    /\ GateIdle
    /\ ProbeIdle
    /\ FuzzIdle
    /\ RestIdle

\* AcaoScanner.run_async (acao.py:21-159) on the persisted list; fnd is the
\* sequence of issues its classification builds from the responses.
AcaoScan ==
    \E ks \in SeqsUpTo(Identities, MaxFound) :
        LET fnd == [i \in 1..Len(ks) |-> NewIssue(ks[i])]
            r == Reconcile(issues, fnd)
        IN  /\ Len(r.issues) <= MaxIssues
            /\ issues' = r.issues
            /\ prior' = issues
            /\ found' = fnd
            /\ returned' = r.results
            /\ repeat' = (aop = "scan" /\ found = fnd)
            /\ aop' = "scan"
            /\ UNCHANGED <<portVars, gateVars, probeVars, fuzzVars, restVars>>

\* ack (cli.py:303-314, 328): every uncategorized issue is prompted for
AcaoAck ==
    /\ Uncategorized(issues) # {}
    /\ \E resp \in [Uncategorized(issues) -> Responses] :
          /\ issues' = AckIssues(issues, resp)
          /\ prior' = issues'
    /\ found' = <<>>
    /\ returned' = <<>>
    /\ aop' = "ack"
    /\ repeat' = FALSE
    /\ UNCHANGED <<portVars, gateVars, probeVars, fuzzVars, restVars>>

AcaoNext == AcaoScan \/ AcaoAck

AcaoSpec == AcaoInit /\ [][AcaoNext]_vars

----------------------------------------------------------------------------
(* Ports *)

\* Bound of the model: the ports 1..MaxPort can answer, higher ports never do
MaxPort == 2

\* ports.py:33
PortLimit == 65535

\* ports.py:71
MaxRetries == 3

Ports == 1..MaxPort

\* What one connection attempt does (ports.py:74-98): the connection is
\* made and closed, a timeout / refusal / OSError, or another exception.
AttemptOutcomes == {"connected", "refused", "error"}

\* How a port answers the successive attempts of one probe
Behaviours ==
    { <<"connected", "connected", "connected">>,
      <<"refused", "error", "connected">>,
      <<"refused", "refused", "refused">> }

NotProbed == <<>>

RECURSIVE ScanPortFrom(_, _)
\* scan_port (ports.py:69-101) from attempt number `attempt` (0-based) on:
\* True at the first attempt that connects, False after max_retries attempts
ScanPortFrom(behaviour, attempt) ==
    IF attempt >= MaxRetries THEN FALSE
    ELSE IF behaviour[attempt + 1] = "connected" THEN TRUE
    ELSE IF attempt < MaxRetries - 1 THEN ScanPortFrom(behaviour, attempt + 1)
    ELSE FALSE

\* scan_port (ports.py:69-101)
ScanPort(behaviour) == ScanPortFrom(behaviour, 0)

RECURSIVE Insert(_, _)
Insert(x, s) ==
    IF s = <<>> THEN <<x>>
    ELSE IF x < Head(s) THEN <<x>> \o s
    ELSE <<Head(s)>> \o Insert(x, Tail(s))

RECURSIVE Sorted(_)
\* sorted(), ports.py:55
Sorted(s) == IF s = <<>> THEN <<>> ELSE Insert(Head(s), Sorted(Tail(s)))

\* [p for p in ports if p not in acked], ports.py:56, cli.py:278, state.py:28
NotIn(ports, acked) ==
    LET Missing(p) == p \notin Range(acked)
    IN  SelectSeq(ports, Missing)

\* The ports.expected setting (config.py:11 has [80, 443]): the first port
Expected == <<1>>

\* load_state (state.py:17-33), the ports section: the expected ports are
\* appended to acknowledged when the state file exists, the default state
\* (state.py:37) is returned when it does not
LoadPorts(exists, acked, open) ==
    IF exists
    THEN [acknowledged |-> acked \o NotIn(Expected, acked), current_open |-> open]
    ELSE [acknowledged |-> <<>>, current_open |-> <<>>]

\* The ports.range settings: a value that is no string of the form N-M, or
\* the two numbers of such a string.
RangeSettings ==
    {<<"malformed">>, <<0, 1>>, <<2, 1>>, <<1, PortLimit + 1>>, <<1, PortLimit>>}
        \cup {r \in Ports \X Ports : r[1] <= r[2]}

\* the range check without its lower limit: start = 0 is accepted
ValidRangeFromZero(rng) ==
    /\ Len(rng) = 2
    /\ rng[1] <= rng[2] /\ rng[2] <= PortLimit

\* ports.py:28-38: the setting is accepted
ValidRange(rng) ==
    /\ Len(rng) = 2
    /\ 1 <= rng[1] /\ rng[1] <= rng[2] /\ rng[2] <= PortLimit

\* the ports of range(start, end + 1) that can answer
Probed(rng) == {p \in Ports : rng[1] <= p /\ p <= rng[2]}

RECURSIVE OpenFrom(_, _, _)
\* ports.py:47-52: all_open_ports, the probed ports whose scan_port is True,
\* in the order of the range
OpenFrom(rng, ans, p) ==
    IF p > MaxPort \/ p > rng[2] THEN <<>>
    ELSE IF p >= rng[1] /\ ScanPort(ans[p])
         THEN <<p>> \o OpenFrom(rng, ans, p + 1)
         ELSE OpenFrom(rng, ans, p + 1)

\* RunPorts reporting every open port as new (the test of ports.py:56 left out)
RunPortsReportsAll(rng, ans, acked) ==
    LET all_open_ports == OpenFrom(rng, ans, 1)
    IN  [current_open |-> Sorted(all_open_ports),
         new_ports |-> all_open_ports]

\* RunPorts storing the new ports instead of all open ports at ports.py:55
RunPortsStoresNew(rng, ans, acked) ==
    LET all_open_ports == OpenFrom(rng, ans, 1)
    IN  [current_open |-> Sorted(NotIn(all_open_ports, acked)),
         new_ports |-> NotIn(all_open_ports, acked)]

\* ports.py:41-59: what a run over an accepted range computes
RunPorts(rng, ans, acked) ==
    LET all_open_ports == OpenFrom(rng, ans, 1)
    IN  [current_open |-> Sorted(all_open_ports),
         new_ports |-> NotIn(all_open_ports, acked)]

\* lists of pairwise distinct ports
DistinctPorts ==
    {s \in SeqsUpTo(Ports, MaxPort) : \A i, j \in 1..Len(s) : i # j => s[i] # s[j]}

Ascending(s) == \A i, j \in 1..Len(s) : i < j => s[i] < s[j]

\* No state file, or a state file left by earlier runs and acknowledgments
PortsInit ==
    /\ stored \in BOOLEAN
    /\ acknowledged \in (IF stored THEN DistinctPorts ELSE {<<>>})
    /\ current_open \in (IF stored THEN {s \in DistinctPorts : Ascending(s)} ELSE {<<>>})
    /\ new_ports = <<>>
    /\ scan_range = <<"malformed">>
    /\ answers = <<>>
    /\ open_before = <<>>
    /\ pop = "init"
    /\ AcaoIdle
    /\ GateIdle
    /\ ProbeIdle
    /\ FuzzIdle
    /\ RestIdle

\* One port scan of the target: the scanner is built on the loaded state
\* (base.py:15) and PortsScanner.run_async (ports.py:19-67) runs; a run over
\* an accepted range saves the document (ports.py:65), a rejected setting
\* returns before anything is probed or written (ports.py:28-38).
PortScan ==
    \E rng \in RangeSettings :
        LET loaded == LoadPorts(stored, acknowledged, current_open)
        IN  /\ scan_range' = rng
            /\ open_before' = loaded.current_open
            /\ pop' = "scan"
            /\ IF ValidRange(rng)
               THEN \E ans \in [Probed(rng) -> Behaviours] :
                       /\ answers' = [p \in Ports |-> IF p \in Probed(rng) THEN ans[p] ELSE NotProbed]
                       /\ current_open' = RunPorts(rng, answers', loaded.acknowledged).current_open
                       /\ new_ports' = RunPorts(rng, answers', loaded.acknowledged).new_ports
                       /\ acknowledged' = loaded.acknowledged
                       /\ stored' = TRUE
               ELSE /\ answers' = [p \in Ports |-> NotProbed]
                    /\ new_ports' = <<>>
                    /\ UNCHANGED <<acknowledged, current_open, stored>>
            /\ UNCHANGED <<acaoVars, gateVars, probeVars, fuzzVars, restVars>>

\* cli.py:285-287: the acknowledged list after the answers to the prompts
\* for the ports of todo, in order
RECURSIVE AckPorts(_, _, _)
AckPorts(acked, todo, resp) ==
    IF todo = <<>> THEN acked
    ELSE AckPorts(IF resp[Head(todo)] = "acknowledge" THEN Append(acked, Head(todo)) ELSE acked,
                  Tail(todo), resp)

\* ack (cli.py:275-288, 328): the open ports that are not acknowledged are
\* prompted for, and the document is saved
PortAck ==
    /\ stored
    /\ LET loaded == LoadPorts(stored, acknowledged, current_open)
           todo == NotIn(loaded.current_open, loaded.acknowledged)
       IN  \E resp \in [Range(todo) -> {"acknowledge", "skip"}] :
              acknowledged' = AckPorts(loaded.acknowledged, todo, resp)
    /\ new_ports' = <<>>
    /\ scan_range' = <<"malformed">>
    /\ answers' = <<>>
    /\ open_before' = <<>>
    /\ pop' = "ack"
    /\ UNCHANGED <<current_open, stored>>
    /\ UNCHANGED <<acaoVars, gateVars, probeVars, fuzzVars, restVars>>

PortsNext == PortScan \/ PortAck

PortsSpec == PortsInit /\ [][PortsNext]_vars

----------------------------------------------------------------------------
(* The concurrency gate: how many probes of one batch are in flight.       *)
(* The probes of a batch run the same code, so the batch is kept as the    *)
(* number of probes at each place of that code.  A probe holds its permit  *)
(* from its first attempt to its return, the backoff sleeps included.      *)

MaxQueued == 1
MaxConcurrency == 2
MaxPaths == 3

\* ports.py:42: asyncio.Semaphore(100)
PortsConcurrency == 100

\* the sizes of the batch of a port scan: one scan_port per port of the range
\* (ports.py:43-46), here a range wider than the semaphore's value
PortBatches == {PortsConcurrency + MaxQueued}

\* the fuzz.concurrency settings (fuzz.py:66) and the sizes of the batch of
\* one scheme, len(wordlist) * (1 + len(extensions)) (fuzz.py:99-105)
ConcurrencySettings == 1..MaxConcurrency
PathBatches == 1..MaxPaths

\* the number of acao.endpoints and of acao.malicious_origins of a run
EndpointCounts == {1, 17}
OriginCounts == {1}

\* acao.py:60-69: one check_endpoint per scheme, endpoint and origin, the
\* origins being the target's own, the arbitrary one and the templates
AcaoBatch(endpoints, origins) == endpoints * 2 * (origins + 2)

\* a semaphore that lets every probe pass
AlwaysOpen(value) == TRUE

\* asyncio.Semaphore.acquire as `async with semaphore` calls it (ports.py:70,
\* fuzz.py:131): the caller passes when the value is positive
CanAcquire(value) == value > 0

GateInit ==
    /\ \/ /\ gkind = "ports"
          /\ glimit = PortsConcurrency
          /\ gqueued \in PortBatches
          /\ gvalue = glimit
       \/ /\ gkind = "fuzz"
          /\ glimit \in ConcurrencySettings
          /\ gqueued \in PathBatches
          /\ gvalue = glimit
       \/ /\ gkind = "acao"
          /\ glimit = 0
          /\ gqueued \in {AcaoBatch(e, o) : e \in EndpointCounts, o \in OriginCounts}
          /\ gvalue = 0
    /\ gattempting = 0
    /\ gsleeping = 0
    /\ gdone = 0
    /\ AcaoIdle
    /\ PortsIdle
    /\ ProbeIdle
    /\ FuzzIdle
    /\ RestIdle

\* scan_port (ports.py:70) or scan_path (fuzz.py:131) enters the semaphore
\* and starts its first attempt
GateAcquire ==
    /\ gkind \in {"ports", "fuzz"}
    /\ gqueued > 0
    /\ CanAcquire(gvalue)
    /\ gvalue' = gvalue - 1
    /\ gqueued' = gqueued - 1
    /\ gattempting' = gattempting + 1
    /\ UNCHANGED <<gkind, glimit, gsleeping, gdone>>
    /\ UNCHANGED <<acaoVars, portVars, probeVars, fuzzVars, restVars>>

\* check_endpoint (acao.py:161-169) starts its first attempt: the tasks are
\* gathered at acao.py:70 and nothing is acquired
AcaoStart ==
    /\ gkind = "acao"
    /\ gqueued > 0
    /\ gqueued' = gqueued - 1
    /\ gattempting' = gattempting + 1
    /\ UNCHANGED <<gkind, glimit, gvalue, gsleeping, gdone>>
    /\ UNCHANGED <<acaoVars, portVars, probeVars, fuzzVars, restVars>>

\* an attempt fails and the probe sleeps before the next one (ports.py:82-84,
\* fuzz.py:150-152, acao.py:178-180)
GateBackoff ==
    /\ gattempting > 0
    /\ gattempting' = gattempting - 1
    /\ gsleeping' = gsleeping + 1
    /\ UNCHANGED <<gkind, glimit, gvalue, gqueued, gdone>>
    /\ UNCHANGED <<acaoVars, portVars, probeVars, fuzzVars, restVars>>

\* the sleep ends and the next attempt starts
GateWake ==
    /\ gsleeping > 0
    /\ gsleeping' = gsleeping - 1
    /\ gattempting' = gattempting + 1
    /\ UNCHANGED <<gkind, glimit, gvalue, gqueued, gdone>>
    /\ UNCHANGED <<acaoVars, portVars, probeVars, fuzzVars, restVars>>

\* the probe returns; leaving `async with semaphore` releases the permit
GateReturn ==
    /\ gattempting > 0
    /\ gattempting' = gattempting - 1
    /\ gdone' = gdone + 1
    /\ gvalue' = IF gkind = "acao" THEN gvalue ELSE gvalue + 1
    /\ UNCHANGED <<gkind, glimit, gqueued, gsleeping>>
    /\ UNCHANGED <<acaoVars, portVars, probeVars, fuzzVars, restVars>>

GateNext == GateAcquire \/ AcaoStart \/ GateBackoff \/ GateWake \/ GateReturn

GateSpec == GateInit /\ [][GateNext]_vars

----------------------------------------------------------------------------
(* The probe functions, attempt by attempt: scan_port, scan_path,          *)
(* check_endpoint and probe_scheme.  A batch holds two probes of one       *)
(* function; a probe runs without interruption from one await to the next, *)
(* so one step is the code between the return of an attempt's network call *)
(* and the next await or the return of the function.                       *)

Probes == {1, 2}

ProbeKinds == {"port", "path", "endpoint", "scheme"}

\* what the network call of one attempt does: a response, or an exception
Response(status, body) == [kind |-> "response", status |-> status, body |-> body]
Outcome(kind) == [kind |-> kind, status |-> 0, body |-> <<>>]
StatusError(status) == [kind |-> "status_error", status |-> status, body |-> <<>>]

\* response bodies, character by character
Welcome == <<"O", "K">>
NotFoundPage == <<"N", "o", "t", " ", "F", "o", "u", "n", "d">>
Error404Page == <<"E", "r", "r", "o", "r", " ", "4", "0", "4">>

UpperCase == <<"A", "B", "C", "D", "E", "F", "G", "H", "I", "J", "K", "L", "M",
               "N", "O", "P", "Q", "R", "S", "T", "U", "V", "W", "X", "Y", "Z">>
LowerCase == <<"a", "b", "c", "d", "e", "f", "g", "h", "i", "j", "k", "l", "m",
               "n", "o", "p", "q", "r", "s", "t", "u", "v", "w", "x", "y", "z">>

\* a body that is searched as it is
SameCase(c) == c

\* str.lower (fuzz.py:140)
Lower(c) ==
    IF \E k \in 1..Len(UpperCase) : UpperCase[k] = c
    THEN LowerCase[CHOOSE k \in 1..Len(UpperCase) : UpperCase[k] = c]
    ELSE c
ToLower(text) == [k \in 1..Len(text) |-> Lower(text[k])]

\* the in operator of two strings (fuzz.py:141)
Contains(needle, text) ==
    \E k \in 0..(Len(text) - Len(needle)) :
        \A j \in 1..Len(needle) : text[k + j] = needle[j]

\* the outcomes an attempt of each probe function is given
PortOutcomes == {Outcome("connected"), Outcome("refused"), Outcome("error")}
PathOutcomes ==
    {Response(200, Welcome), Response(404, NotFoundPage), Response(429, <<>>),
     Outcome("connect_error"), StatusError(429), StatusError(500), Outcome("error")}
\* the body of an endpoint's response stands for the values of its
\* Access-Control-Allow-Origin header
EndpointOutcomes ==
    {Response(200, <<"*">>), Outcome("connect_error"), Outcome("http_error"),
     Outcome("error")}
SchemeOutcomes ==
    {Response(200, <<>>), Response(404, <<>>), Response(503, <<>>),
     Outcome("connect_error"), Outcome("error")}

OutcomesOf(kind) ==
    CASE kind = "port" -> PortOutcomes
      [] kind = "path" -> PathOutcomes
      [] kind = "endpoint" -> EndpointOutcomes
      [] OTHER -> SchemeOutcomes

\* what one pass of the retry loop decides: return a result, having counted
\* the probe or not, or sleep and go on
Returns(result) == [next |-> "return", result |-> <<result>>, counted |-> 1]
Uncounted(result) == [next |-> "return", result |-> <<result>>, counted |-> 0]
Backoff == [next |-> "sleep", result |-> <<>>, counted |-> 0]

\* `if attempt < max_retries - 1` (ports.py:82, fuzz.py:149, acao.py:177)
Retry(attempt) == attempt < MaxRetries - 1

\* a loop that goes on after max_retries passes
LoopNeverEnds(attempts) == FALSE

\* `for attempt in range(max_retries)` has made all its passes
LoopEnds(attempts) == attempts >= MaxRetries

\* scan_port, one pass (ports.py:73-98)
PortAttempt(o, attempt) ==
    CASE o.kind = "connected" -> Returns(TRUE)
      [] o.kind = "refused" -> IF Retry(attempt) THEN Backoff ELSE Returns(FALSE)
      [] OTHER -> IF Retry(attempt) THEN Backoff ELSE Returns(FALSE)

\* the (False, None) of scan_path
NoFinding == [success |-> FALSE, status |-> <<>>]

\* scan_path on a response (fuzz.py:139-147)
PathVerdict(status, body) ==
    IF /\ status = 200
       /\ \/ Contains(<<"4", "0", "4">>, ToLower(body))
          \/ Contains(<<"n", "o", "t", " ", "f", "o", "u", "n", "d">>, ToLower(body))
    THEN [success |-> FALSE, status |-> <<200>>]
    ELSE IF status \in {200, 301, 302}
         THEN [success |-> TRUE, status |-> <<status>>]
         ELSE NoFinding

\* scan_path, one pass (fuzz.py:134-178)
PathAttempt(o, attempt) ==
    CASE o.kind = "response" -> Returns(PathVerdict(o.status, o.body))
      [] o.kind = "connect_error" ->
            IF Retry(attempt) THEN Backoff ELSE Returns(NoFinding)
      [] o.kind = "status_error" ->
            IF o.status = 429 THEN Backoff ELSE Returns(NoFinding)
      [] OTHER -> IF Retry(attempt) THEN Backoff ELSE Returns(NoFinding)

\* check_endpoint, one pass (acao.py:164-201)
EndpointAttempt(o, attempt) ==
    CASE o.kind = "response" -> Returns(o.body)
      [] o.kind = "connect_error" -> IF Retry(attempt) THEN Backoff ELSE Returns(<<>>)
      [] o.kind = "http_error" -> IF Retry(attempt) THEN Backoff ELSE Returns(<<>>)
      [] OTHER -> IF Retry(attempt) THEN Backoff ELSE Returns(<<>>)

\* a viability check that takes only a success status for an answer
SchemeAttemptBelow400(o, attempt) ==
    IF o.kind = "response" /\ o.status < 400 THEN Uncounted(TRUE)
    ELSE IF Retry(attempt) THEN Backoff ELSE Uncounted(FALSE)

\* probe_scheme, one pass (fuzz.py:23-41); it keeps no count
SchemeAttempt(o, attempt) ==
    IF o.kind = "response" /\ o.status < 500 THEN Uncounted(TRUE)
    ELSE IF Retry(attempt) THEN Backoff ELSE Uncounted(FALSE)

Attempt(kind, o, attempt) ==
    CASE kind = "port" -> PortAttempt(o, attempt)
      [] kind = "path" -> PathAttempt(o, attempt)
      [] kind = "endpoint" -> EndpointAttempt(o, attempt)
      [] OTHER -> SchemeAttempt(o, attempt)

\* the end of the loop without the scanned count
ExhaustedUncounted(kind) ==
    CASE kind = "port" -> Uncounted(FALSE)
      [] kind = "path" -> Uncounted(NoFinding)
      [] kind = "endpoint" -> Uncounted(<<>>)
      [] OTHER -> Uncounted(FALSE)

\* the code after the loop (ports.py:99-101, fuzz.py:179-181,
\* acao.py:202-204, fuzz.py:42-44)
Exhausted(kind) ==
    CASE kind = "port" -> Returns(FALSE)
      [] kind = "path" -> Returns(NoFinding)
      [] kind = "endpoint" -> Returns(<<>>)
      [] OTHER -> Uncounted(FALSE)

\* the probe functions that run inside `async with semaphore`
Gated(kind) == kind \in {"port", "path"}

\* a probe function that keeps its permit when it returns
KeepsPermit(kind, value) == value

\* the semaphore's value after a probe function has returned: leaving
\* `async with semaphore` (ports.py:70, fuzz.py:129) releases the permit on
\* every way out of the block
Released(kind, value) == IF Gated(kind) THEN value + 1 ELSE value

ProbeInit ==
    /\ pkind \in ProbeKinds
    /\ pvalue \in CASE pkind = "port" -> {PortsConcurrency}
                    [] pkind = "path" -> ConcurrencySettings
                    [] OTHER -> {0}
    /\ ppc = [i \in Probes |-> "queued"]
    /\ ptrace = [i \in Probes |-> <<>>]
    /\ presult = [i \in Probes |-> <<>>]
    /\ pcounted = [i \in Probes |-> 0]
    /\ pscanned = 0
    /\ AcaoIdle
    /\ PortsIdle
    /\ GateIdle
    /\ FuzzIdle
    /\ RestIdle

\* the probe function of probe i returns what step says: the result is
\* handed to gather, the count is taken under the lock and the permit is
\* released on leaving `async with semaphore`
ProbeReturn(i, step) ==
    /\ ppc' = [ppc EXCEPT ![i] = "returned"]
    /\ presult' = [presult EXCEPT ![i] = step.result]
    /\ pcounted' = [pcounted EXCEPT ![i] = @ + step.counted]
    /\ pscanned' = pscanned + step.counted
    /\ pvalue' = Released(pkind, pvalue)

\* probe i starts: scan_port and scan_path enter the semaphore (ports.py:70,
\* fuzz.py:131), check_endpoint and probe_scheme start their loop at once
ProbeStart(i) ==
    /\ ppc[i] = "queued"
    /\ Gated(pkind) => CanAcquire(pvalue)
    /\ pvalue' = IF Gated(pkind) THEN pvalue - 1 ELSE pvalue
    /\ ppc' = [ppc EXCEPT ![i] = "attempting"]
    /\ UNCHANGED <<pkind, ptrace, presult, pcounted, pscanned>>
    /\ UNCHANGED <<acaoVars, portVars, gateVars, fuzzVars, restVars>>

\* the network call of probe i's attempt ends with outcome o, and the probe
\* runs to its return or to its backoff sleep
ProbeAttempt(i, o) ==
    /\ ppc[i] = "attempting"
    /\ LET step == Attempt(pkind, o, Len(ptrace[i]))
       IN  /\ ptrace' = [ptrace EXCEPT ![i] = Append(@, o)]
           /\ IF step.next = "return"
              THEN ProbeReturn(i, step)
              ELSE /\ ppc' = [ppc EXCEPT ![i] = "sleeping"]
                   /\ UNCHANGED <<presult, pcounted, pscanned, pvalue>>
    /\ UNCHANGED pkind
    /\ UNCHANGED <<acaoVars, portVars, gateVars, fuzzVars, restVars>>

\* the backoff sleep of probe i ends: the loop makes its next pass, or it
\* has made them all and the code after it runs
ProbeWake(i) ==
    /\ ppc[i] = "sleeping"
    /\ IF LoopEnds(Len(ptrace[i]))
       THEN ProbeReturn(i, Exhausted(pkind))
       ELSE /\ ppc' = [ppc EXCEPT ![i] = "attempting"]
            /\ UNCHANGED <<presult, pcounted, pscanned, pvalue>>
    /\ UNCHANGED <<pkind, ptrace>>
    /\ UNCHANGED <<acaoVars, portVars, gateVars, fuzzVars, restVars>>

ProbeNext ==
    \E i \in Probes :
        \/ ProbeStart(i)
        \/ \E o \in OutcomesOf(pkind) : ProbeAttempt(i, o)
        \/ ProbeWake(i)

ProbeSpec == ProbeInit /\ [][ProbeNext]_vars

\* The scheduling of a batch: the event loop runs a probe that can enter
\* the semaphore, every network call returns or raises in the end (the
\* timeout of the call, ports.py:75, fuzz.py:137), and every sleep ends.
ProbeFairness ==
    \A i \in Probes :
        /\ WF_vars(ProbeStart(i))
        /\ WF_vars(\E o \in OutcomesOf(pkind) : ProbeAttempt(i, o))
        /\ WF_vars(ProbeWake(i))

ProbeLiveSpec == ProbeSpec /\ ProbeFairness

----------------------------------------------------------------------------
(* The fuzz scanner: FuzzScanner.run_async on the document the command     *)
(* line loaded.  A run is one step; what the two schemes and the paths     *)
(* answer is its input, and the run records the attempts it made.          *)

Schemes == <<"http", "https">>
Wordlist == <<"admin">>
Extensions == <<".bak">>

\* a run that probes a word only with its extensions
PathsWithExtension(wordlist) ==
    [k \in 1..(Len(wordlist) * Len(Extensions)) |->
        "/" \o wordlist[((k - 1) \div Len(Extensions)) + 1]
            \o Extensions[((k - 1) % Len(Extensions)) + 1]]

\* `for word in wordlist: for ext in [""] + extensions: path = f"/{word}{ext}"`
\* (fuzz.py:101-103), in the order of the loops
PathsOf(wordlist) ==
    LET exts == <<"">> \o Extensions
    IN  [k \in 1..(Len(wordlist) * Len(exts)) |->
            "/" \o wordlist[((k - 1) \div Len(exts)) + 1]
                \o exts[((k - 1) % Len(exts)) + 1]]

Paths == PathsOf(Wordlist)

\* the wordlists a run is given: the lines of the wordlist files one after
\* the other (fuzz.py:63-67), a word once or twice
Wordlists == {Wordlist, Wordlist \o Wordlist}

\* f"{scheme}://{target}{path}" (fuzz.py:113)
Url(scheme, path) == scheme \o "://" \o Target \o path

\* the URLs of this configuration in the order of Python's string comparison:
\* "http:" sorts before "https", and a path before its extensions
UrlOrder ==
    [k \in 1..(Len(Schemes) * Len(Paths)) |->
        Url(Schemes[((k - 1) \div Len(Paths)) + 1], Paths[((k - 1) % Len(Paths)) + 1])]

\* sorted(set(...)) of URLs (fuzz.py:116)
SortedSet(S) ==
    LET Member(u) == u \in S
    IN  SelectSeq(UrlOrder, Member)

\* what "/" answers to the HEAD attempts of probe_scheme
HeadBehaviours ==
    {<<Response(200, <<>>)>>,
     <<Outcome("connect_error"), Response(404, <<>>), Response(404, <<>>)>>,
     <<Response(503, <<>>), Outcome("connect_error"), Response(500, <<>>)>>}

\* what a path answers to the GET attempts of scan_path
GetBehaviours ==
    {<<Response(200, Welcome)>>,
     <<Response(200, NotFoundPage)>>,
     <<Response(200, Error404Page)>>,
     <<Response(301, <<>>)>>,
     <<Response(404, NotFoundPage)>>,
     <<Outcome("connect_error"), Response(302, <<>>)>>}

RECURSIVE ProbeFrom(_, _, _)
\* a probe function run from its pass number attempt on the answers of
\* behaviour: what it returns and how many attempts it has made
ProbeFrom(kind, behaviour, attempt) ==
    LET step == Attempt(kind, behaviour[attempt + 1], attempt)
    IN  IF step.next = "return"
        THEN [result |-> step.result[1], attempts |-> attempt + 1]
        ELSE IF LoopEnds(attempt + 1)
             THEN [result |-> Exhausted(kind).result[1], attempts |-> attempt + 1]
             ELSE ProbeFrom(kind, behaviour, attempt + 1)

\* probe_scheme (fuzz.py:20-44) on each of the behaviours of "/"
ProbeSchemes == [behaviour \in HeadBehaviours |-> ProbeFrom("scheme", behaviour, 0)]

\* probe_scheme (fuzz.py:20-44)
ProbeScheme(behaviour) == ProbeSchemes[behaviour]

\* scan_path (fuzz.py:128-181) on each of the behaviours of a path
ScanPaths == [behaviour \in GetBehaviours |-> ProbeFrom("path", behaviour, 0)]

\* scan_path (fuzz.py:128-181)
ScanPath(behaviour) == ScanPaths[behaviour]

\* a run that takes every scheme for viable
EverySchemeViable(heads) == Schemes

\* fuzz.py:88-92: the schemes whose probe_scheme is True, in order
ViableSchemes(heads) ==
    LET Viable(scheme) == ProbeScheme(heads[scheme]).result
    IN  SelectSeq(Schemes, Viable)

\* fuzz.py:107-114: the URLs of one scheme whose scan_path succeeded, in the
\* order of the tasks
FoundOn(scheme, gets, wordlist) ==
    LET Hit(path) == ScanPath(gets[<<scheme, path>>]).result.success
        hits == SelectSeq(PathsOf(wordlist), Hit)
    IN  [j \in 1..Len(hits) |-> Url(scheme, hits[j])]

RECURSIVE FoundFrom(_, _, _)
\* fuzz.py:99-114: the issues list of the run over the viable schemes
FoundFrom(viable, gets, wordlist) ==
    IF viable = <<>> THEN <<>>
    ELSE FoundOn(Head(viable), gets, wordlist) \o FoundFrom(Tail(viable), gets, wordlist)

\* a run that keeps only what it found
OnlyFound(state_issues, found_issues) == SortedSet(Range(found_issues))

\* fuzz.py:116: sorted(set(state["fuzz"]["issues"] + issues))
Persisted(state_issues, found_issues) ==
    SortedSet(Range(state_issues) \cup Range(found_issues))

\* FuzzScanner.run_async (fuzz.py:46-126): the list it leaves in
\* state["fuzz"]["issues"], its results["found"] and its total_paths
\* (fuzz.py:82, 91)
RunFuzz(state_issues, heads, gets, wordlist) ==
    LET viable == ViableSchemes(heads)
        found_issues == FoundFrom(viable, gets, wordlist)
        total == Len(viable) * (Len(wordlist) * (1 + Len(Extensions)))
    IN  IF viable = <<>>
        THEN [issues |-> state_issues, found |-> <<>>, total |-> total]
        ELSE [issues |-> Persisted(state_issues, found_issues), found |-> found_issues,
              total |-> total]

\* a path that was not probed
NoAttempts == [answers |-> <<>>, attempts |-> 0]

FuzzInit ==
    /\ FuzzIdle
    /\ AcaoIdle
    /\ PortsIdle
    /\ GateIdle
    /\ ProbeIdle
    /\ RestIdle

\* One fuzz scan of the target on the loaded document.
FuzzScan ==
    /\ fop \in {"init", "load"}
    /\ \E heads \in [Range(Schemes) -> HeadBehaviours], wordlist \in Wordlists :
          LET viable == Range(ViableSchemes(heads))
              paths == PathsOf(wordlist)
              probed == viable \X Range(paths)
          IN  \E gets \in [probed -> GetBehaviours] :
                 LET run == RunFuzz(fuzz_issues, heads, gets, wordlist)
                 IN  /\ fuzz_issues' = run.issues
                     /\ fuzz_found' = run.found
                     /\ ftotal' = run.total
                     /\ fwords' = wordlist
                     /\ ftasks' = [scheme \in Range(Schemes) |->
                                     IF scheme \in viable THEN paths ELSE <<>>]
                     /\ fheads' = [scheme \in Range(Schemes) |->
                                     [answers |-> heads[scheme],
                                      attempts |-> ProbeScheme(heads[scheme]).attempts]]
                     /\ fgets' = [sp \in Range(Schemes) \X Range(Paths) |->
                                     IF sp \in probed
                                     THEN [answers |-> gets[sp],
                                           attempts |-> ScanPath(gets[sp]).attempts]
                                     ELSE NoAttempts]
    /\ fuzz_prior' = fuzz_issues
    /\ fop' = "scan"
    /\ UNCHANGED <<acaoVars, portVars, gateVars, probeVars, restVars>>

\* The command line saves the document after the scanners of the target
\* have run (cli.py:172) and a later command loads it (cli.py:115).
FuzzLoad ==
    /\ fop = "scan"
    /\ fuzz_prior' = <<>>
    /\ fuzz_found' = <<>>
    /\ fheads' = <<>>
    /\ fgets' = <<>>
    /\ fwords' = <<>>
    /\ ftasks' = <<>>
    /\ ftotal' = 0
    /\ fop' = "load"
    /\ UNCHANGED fuzz_issues
    /\ UNCHANGED <<acaoVars, portVars, gateVars, probeVars, restVars>>

FuzzNext == FuzzScan \/ FuzzLoad

FuzzSpec == FuzzInit /\ [][FuzzNext]_vars

----------------------------------------------------------------------------
(* The ACAO classification: what run_async makes of one value of the       *)
(* Access-Control-Allow-Origin header of an answer (acao.py:77-110).  The  *)
(* header values, the origins and the hosts are sequences of characters.   *)

\* schemes (acao.py:34)
AcaoSchemes == <<"http", "https">>

\* parsed.hostname of the target (acao.py:24-26), the characters of Target
TargetText == <<"t", "e", "s", "t", ".", "l", "o", "c", "a", "l">>

HttpPrefix == <<"h", "t", "t", "p", ":", "/", "/">>
HttpsPrefix == <<"h", "t", "t", "p", "s", ":", "/", "/">>

\* f"{scheme}://{target}" (acao.py:64, 82)
OriginOf(scheme) == (IF scheme = "http" THEN HttpPrefix ELSE HttpsPrefix) \o TargetText

\* arbitrary_origin (acao.py:35)
ArbitraryOrigin == HttpPrefix \o <<"e", "v", "i", "l", ".", "c", "o", "m">>

\* origin_template.format(domain=target) (acao.py:68) of the template
\* "http://malicious-{domain}" (config.py:23)
MaliciousOrigin == HttpPrefix \o <<"m", "a", "l", "i", "c", "i", "o", "u", "s", "-">> \o TargetText

\* the origins of the probes of an endpoint on a scheme (acao.py:64-69)
ProbeOrigins(scheme) == <<OriginOf(scheme), ArbitraryOrigin, MaliciousOrigin>>

Star == <<"*">>
LeakedAddress == HttpPrefix \o <<"1", "9", "2", ".", "1", "6", "8", ".", "1", ".", "1", "0">>
NoAddress == HttpPrefix \o <<"9", "9", "9", ".", "1", ".", "1", ".", "1">>
InternalDomain == HttpPrefix \o <<"i", "n", "t", "e", "r", "n", "a", "l", ".", "s", "e", "c", "r", "e", "t", ".", "c", "o", "m">>
UpperCaseTarget == HttpPrefix \o <<"T", "E", "S", "T", ".", "l", "o", "c", "a", "l", ":", "8", "0", "8", "0">>
OpenBracket == HttpPrefix \o <<"[">>

\* the header values a server answers with
Candidates ==
    {Star, TargetText, HttpPrefix \o TargetText, HttpsPrefix \o TargetText,
     UpperCaseTarget, LeakedAddress, NoAddress, InternalDomain, ArbitraryOrigin,
     MaliciousOrigin, OpenBracket}

Digits == <<"0", "1", "2", "3", "4", "5", "6", "7", "8", "9">>

IsDigit(c) == c \in Range(Digits)
IsLetter(c) == c \in Range(UpperCase) \cup Range(LowerCase)
\* the characters \b tells from the others (acao.py:238)
IsWord(c) == IsLetter(c) \/ IsDigit(c) \/ c = "_"
\* scheme_chars of urllib.parse
IsSchemeChar(c) == IsLetter(c) \/ IsDigit(c) \/ c \in {"+", "-", "."}

HasChar(c, text) == \E k \in 1..Len(text) : text[k] = c

\* the position of the first c in text, 0 if there is none
Find(c, text) ==
    IF HasChar(c, text) THEN MinOf({k \in 1..Len(text) : text[k] = c}) ELSE 0

\* str.partition(c)[0]
Before(c, text) ==
    IF HasChar(c, text) THEN SubSeq(text, 1, Find(c, text) - 1) ELSE text

\* str.partition(c)[2]
After(c, text) ==
    IF HasChar(c, text) THEN SubSeq(text, Find(c, text) + 1, Len(text)) ELSE <<>>

\* str.rpartition(c)[2]
AfterLast(c, text) ==
    IF HasChar(c, text)
    THEN SubSeq(text, 1 + CHOOSE k \in 1..Len(text) :
                          text[k] = c /\ \A j \in (k + 1)..Len(text) : text[j] # c,
                Len(text))
    ELSE text

\* urlsplit: what follows the scheme and its colon, the text itself when it
\* does not start with a scheme
AfterScheme(text) ==
    LET i == Find(":", text)
    IN  IF i > 1 /\ IsLetter(text[1]) /\ \A k \in 1..(i - 1) : IsSchemeChar(text[k])
        THEN SubSeq(text, i + 1, Len(text))
        ELSE text

\* urlsplit: the netloc, what follows "//" up to the first of "/", "?", "#"
NetLoc(text) ==
    LET rest == AfterScheme(text)
        stops == {k \in 3..Len(rest) : rest[k] \in {"/", "?", "#"}}
    IN  IF Len(rest) >= 2 /\ rest[1] = "/" /\ rest[2] = "/"
        THEN SubSeq(rest, 3, IF stops = {} THEN Len(rest) ELSE MinOf(stops) - 1)
        ELSE <<>>

\* _hostinfo of urllib.parse: the host of a netloc, before lower-casing
HostInfo(netloc) ==
    LET hostinfo == AfterLast("@", netloc)
    IN  IF HasChar("[", hostinfo)
        THEN Before("]", After("[", hostinfo))
        ELSE Before(":", hostinfo)

\* the hostname property: lower case up to a zone, no host is the empty text
LowerHost(hostname) ==
    LET i == Find("%", hostname)
    IN  IF i = 0 THEN ToLower(hostname)
        ELSE ToLower(SubSeq(hostname, 1, i - 1)) \o SubSeq(hostname, i, Len(hostname))

\* urllib.parse.urlparse(text).hostname or "" (acao.py:80, 92-93): urlsplit
\* raises ValueError for a netloc with one of "[" and "]" but not the other
UrlHostname(text) ==
    LET netloc == NetLoc(text)
    IN  IF HasChar("[", netloc) # HasChar("]", netloc)
        THEN [raises |-> TRUE, host |-> <<>>]
        ELSE [raises |-> FALSE, host |-> LowerHost(HostInfo(netloc))]

RECURSIVE RunLength(_, _)
\* the number of digits of text from position i on
RunLength(text, i) ==
    IF i <= Len(text) /\ IsDigit(text[i]) THEN 1 + RunLength(text, i + 1) ELSE 0

RECURSIVE GroupsEnd(_, _, _)
\* text goes on from position i with that many groups of 1 to 3 digits, dots
\* between them and a word boundary behind them: the position of the last
\* digit, 0 if it does not
GroupsEnd(text, i, groups) ==
    LET n == RunLength(text, i)
    IN  IF n < 1 \/ n > 3 THEN 0
        ELSE IF groups = 1
             THEN IF i + n > Len(text) \/ ~IsWord(text[i + n]) THEN i + n - 1 ELSE 0
             ELSE IF i + n <= Len(text) /\ text[i + n] = "."
                  THEN GroupsEnd(text, i + n + 1, groups - 1)
                  ELSE 0

\* the end of the match of \b(?:\d{1,3}\.){3}\d{1,3}\b at position i
\* (acao.py:238), 0 if there is none
MatchEnd(text, i) ==
    IF i = 1 \/ ~IsWord(text[i - 1]) THEN GroupsEnd(text, i, 4) ELSE 0

RECURSIVE FindAll(_, _)
\* re.findall (acao.py:239) from position i on
FindAll(text, i) ==
    IF i > Len(text) THEN <<>>
    ELSE IF MatchEnd(text, i) > 0
         THEN <<SubSeq(text, i, MatchEnd(text, i))>> \o FindAll(text, MatchEnd(text, i) + 1)
         ELSE FindAll(text, i + 1)

RECURSIVE Split(_)
\* str.split(".")
Split(text) ==
    IF HasChar(".", text) THEN <<Before(".", text)>> \o Split(After(".", text)) ELSE <<text>>

DigitValue(c) == (CHOOSE k \in 1..Len(Digits) : Digits[k] = c) - 1

RECURSIVE Number(_)
Number(digits) ==
    IF digits = <<>> THEN 0
    ELSE 10 * Number(SubSeq(digits, 1, Len(digits) - 1)) + DigitValue(digits[Len(digits)])

\* ipaddress.ip_address (acao.py:243) accepts the four groups: no group above
\* 255, none with a leading zero
ValidAddress(ip) ==
    \A k \in 1..Len(Split(ip)) :
        LET octet == Split(ip)[k]
        IN  (Len(octet) > 1 => octet[1] # "0") /\ Number(octet) <= 255

\* extract_ips (acao.py:237-247)
ExtractIps(text) == SelectSeq(FindAll(text, 1), ValidAddress)

\* how the server answers the confirmation probe of a candidate
\* (acao.py:98-100): not at all, with the origin of the probe, with the
\* candidate again, with "*"
ConfirmAnswers == {"failed", "reflected", "same", "star"}

\* the ACAO values check_endpoint returns for the confirmation probe
ConfirmValues(answer, crafted_origin, acao) ==
    CASE answer = "failed" -> <<>>
      [] answer = "reflected" -> <<crafted_origin>>
      [] answer = "same" -> <<acao>>
      [] answer = "star" -> <<Star>>

\* a scanner that takes no host for the target's own
NeverOwnHost(host) == FALSE

\* acao.py:80: the candidate names the target's own host
OwnHost(host) == host = TargetText

\* a scanner that takes no candidate for the reflection of its origin
NeverReflected(acao, origin) == FALSE

\* acao.py:87: is_arbitrary
Reflected(acao, origin) == acao = origin

\* what the classification of a candidate comes to: an issue, none, or an
\* exception, and the number of confirmation probes it sent
\* a scanner that sends a confirmation probe for every host
AnyHost(acao_host) == acao_host # <<>>

\* `if acao_host and "." in acao_host` (acao.py:95)
DomainLike(acao_host) == acao_host # <<>> /\ HasChar(".", acao_host)

NoIssue(probes) == [end |-> "none", weak_type |-> "", detail |-> <<>>, probes |-> probes]
Raised == [end |-> "raised", weak_type |-> "", detail |-> <<>>, probes |-> 0]
Classified(weak_type, detail, probes) ==
    [end |-> "issue", weak_type |-> weak_type, detail |-> detail, probes |-> probes]

\* acao.py:77-110: one pass of `for acao in acao_values` on the answer of a
\* probe of the scheme with the origin; confirm is the server's answer to the
\* confirmation probe, if one is sent
Classify(scheme, origin, acao, confirm) ==
    LET parsed == UrlHostname(acao)
        acao_host == IF parsed.host # <<>> THEN parsed.host ELSE acao
        crafted_origin == HttpPrefix \o <<"e", "v", "i", "l", "-">> \o acao_host
        test_acao_values == ConfirmValues(confirm, crafted_origin, acao)
    IN  IF parsed.raises THEN Raised
        ELSE IF OwnHost(parsed.host) THEN NoIssue(0)
        ELSE IF origin = OriginOf(scheme)
        THEN IF acao \notin {TargetText, HttpPrefix \o TargetText, HttpsPrefix \o TargetText}
             THEN Classified(IF ExtractIps(acao) # <<>> THEN "leaked_ip" ELSE "leaked_domain",
                           acao, 0)
             ELSE NoIssue(0)
        ELSE IF Reflected(acao, origin) THEN Classified("arbitrary", acao, 0)
        ELSE IF DomainLike(acao_host)
        THEN IF \E k \in 1..Len(test_acao_values) :
                    \/ Contains(acao_host, test_acao_values[k])
                    \/ Contains(crafted_origin, test_acao_values[k])
             THEN Classified("broad-reflection",
                           acao \o <<" ", "(", "v", "u", "l", "n", "e", "r", "a", "b", "l", "e", " ", "t", "o", " ">> \o crafted_origin \o <<")">>,
                           1)
             ELSE NoIssue(1)
        ELSE NoIssue(0)

\* A probe of a scheme with one of its origins is answered with a candidate.
ClassInit ==
    /\ cscheme \in Range(AcaoSchemes)
    /\ corigin \in Range(ProbeOrigins(cscheme))
    /\ cacao \in Candidates
    /\ cconfirm \in ConfirmAnswers
    /\ cresult = <<>>
    /\ cpc = "input"
    /\ AcaoIdle
    /\ PortsIdle
    /\ GateIdle
    /\ ProbeIdle
    /\ FuzzIdle
    /\ RunIdle
    /\ CliIdle
    /\ StoreIdle
    /\ MoreIdle

\* The candidate is classified.
ClassifyCandidate ==
    /\ cpc = "input"
    /\ cresult' = Classify(cscheme, corigin, cacao, cconfirm)
    /\ cpc' = "classified"
    /\ UNCHANGED <<cscheme, corigin, cacao, cconfirm>>
    /\ UNCHANGED <<scanVars, runVars, cliVars, storeVars, moreVars>>

ClassifySpec == ClassInit /\ [][ClassifyCandidate]_vars

----------------------------------------------------------------------------
(* One ACAO run on a new document: the endpoint "/" is probed on both      *)
(* schemes with the three origins, the answers are classified in the order *)
(* of the tasks and the issues are reconciled with the empty list.         *)

\* tasks (acao.py:61-69) for endpoints = ["/"] and the default origin
\* template: the scheme and the origin of each
Tasks ==
    [k \in 1..(Len(AcaoSchemes) * 3) |->
        LET scheme == AcaoSchemes[((k - 1) \div 3) + 1]
        IN  [scheme |-> scheme, origin |-> ProbeOrigins(scheme)[((k - 1) % 3) + 1]]]

\* what check_endpoint returns for a task (acao.py:161-204): no value after
\* three failed attempts, the values of the header of the answer otherwise
Failed == [failed |-> TRUE, values |-> <<>>]
Answer(values) == [failed |-> FALSE, values |-> values]
ProbeAnswers ==
    {Failed, Answer(<<ArbitraryOrigin>>), Answer(<<HttpPrefix \o TargetText>>),
     Answer(<<OpenBracket>>)}

\* the classification of every candidate, for every probe and every answer
\* to a confirmation probe
Classifications ==
    [probe \in {<<scheme, origin, acao, confirm>> :
                    scheme \in Range(AcaoSchemes),
                    origin \in {ArbitraryOrigin, MaliciousOrigin}
                                 \cup {OriginOf(own) : own \in Range(AcaoSchemes)},
                    acao \in Candidates, confirm \in ConfirmAnswers} |->
        Classify(probe[1], probe[2], probe[3], probe[4])]

RECURSIVE Reached(_, _)
\* the values of the results of the tasks from task k on, each with its
\* task, in the order the loops of acao.py:72-77 come to them
Reached(results_list, k) ==
    IF k > Len(Tasks) THEN <<>>
    ELSE [n \in 1..Len(results_list[k].values) |->
             [task |-> k, acao |-> results_list[k].values[n]]]
         \o Reached(results_list, k + 1)

\* the classification of each of the values reached
Passes(reached, confirm) ==
    [j \in 1..Len(reached) |->
        [task |-> reached[j].task,
         class |-> Classifications[<<Tasks[reached[j].task].scheme,
                                     Tasks[reached[j].task].origin,
                                     reached[j].acao, confirm>>]]]

\* the passes made: those up to the first one that raises
Made(passes) ==
    LET raising == {j \in 1..Len(passes) : passes[j].class.end = "raised"}
    IN  SubSeq(passes, 1, IF raising = {} THEN Len(passes) ELSE MinOf(raising) - 1)

\* acao.py:110-118: the issues of the passes made, each with its task
Built(made) ==
    LET IsIssue(pass) == pass.class.end = "issue"
        Dict(pass) == [task |-> pass.task,
                       issue |-> NewIssue([scheme |-> Tasks[pass.task].scheme,
                                           hostname |-> Target, endpoint |-> "/",
                                           weak_type |-> pass.class.weak_type,
                                           detail |-> pass.class.detail])]
        issue_passes == SelectSeq(made, IsIssue)
    IN  [j \in 1..Len(issue_passes) |-> Dict(issue_passes[j])]

\* acao.py:72-126: the loops over the results of the tasks and their values
\* on a document without issues; an exception of the classification ends
\* them, and found holds the issues built until then, each with its task
LoopResult(passes, made) == [raised |-> Len(made) < Len(passes), found |-> Built(made)]
PassesResult(passes) == LoopResult(passes, Made(passes))
ClassifyTasks(results_list, confirm) == PassesResult(Passes(Reached(results_list, 1), confirm))

\* the issues of found, without their tasks
IssuesOf(built) == [j \in 1..Len(built) |-> built[j].issue]

\* acao.py:128-155 after the loops: the reconciliation and the assignment
\* of line 150, or the except of line 154 that leaves the list as it was
Stores(loop) ==
    IF loop.raised
    THEN [found |-> loop.found, issues |-> <<>>, end |-> "aborted"]
    ELSE [found |-> loop.found, issues |-> Reconcile(<<>>, IssuesOf(loop.found)).issues,
          end |-> "stored"]

\* run_async (acao.py:21-159) on a document without ACAO issues: what the
\* loops built, the list state["acao"]["issues"] is left with and how the
\* run ended
RunAcao(results_list, confirm) == Stores(ClassifyTasks(results_list, confirm))

\* total_endpoints (acao.py:36) for endpoints = ["/"] and one malicious
\* origin: len(endpoints) * len(schemes) * (len(malicious_origins) + 2)
TotalEndpoints == 1 * Len(AcaoSchemes) * (1 + 2)

RECURSIVE ConfirmationProbes(_)
\* the confirmation probes (acao.py:98-100) of the passes
ConfirmationProbes(passes) ==
    IF passes = <<>> THEN 0
    ELSE Head(passes).class.probes + ConfirmationProbes(Tail(passes))

\* endpoints_scanned after the run: check_endpoint adds one on each of its
\* ways out (acao.py:170-203), for each task and for each confirmation probe
\* of the passes made
EndpointsScanned(results_list, confirm) ==
    Len(Tasks) + ConfirmationProbes(Made(Passes(Reached(results_list, 1), confirm)))

\* the run is over
Ran(results_list, confirm, run) ==
    /\ ranswers' = results_list
    /\ rconfirm' = confirm
    /\ rfound' = run.found
    /\ rissues' = run.issues
    /\ rend' = run.end
    /\ rscanned' = EndpointsScanned(results_list, confirm)
    /\ rtotal' = TotalEndpoints

RunInit ==
    /\ RunIdle
    /\ AcaoIdle
    /\ PortsIdle
    /\ GateIdle
    /\ ProbeIdle
    /\ FuzzIdle
    /\ ClassIdle
    /\ CliIdle
    /\ StoreIdle
    /\ MoreIdle

\* One run: every task is answered or fails, the answers are classified.
AcaoRun ==
    /\ rend = "init"
    /\ \E results_list \in [1..Len(Tasks) -> ProbeAnswers], confirm \in ConfirmAnswers :
          Ran(results_list, confirm, RunAcao(results_list, confirm))
    /\ UNCHANGED <<scanVars, classVars, cliVars, storeVars, moreVars>>

AcaoRunSpec == RunInit /\ [][AcaoRun]_vars

----------------------------------------------------------------------------
(* The scan command: async_scan (cli.py:102-177) works on the hosts one    *)
(* after the other; for each it builds a scanner and a task per scan type, *)
(* polls the tasks until all are done and saves the host's document.  A    *)
(* section of a document is kept as a mark: Scanned if it is the section   *)
(* of the scanner of this command, Loaded if it is as the command found it.*)

\* all_hosts and scan_types of the command
Hosts == <<"test.local", "example.com">>
ScanTypes == <<"ports", "fuzz", "acao-leak">>

Loaded == "loaded"
Scanned == "scanned"

\* the document of a host before the command
LoadedDocument == [t \in Range(ScanTypes) |-> Loaded]

\* whether SCANNERS[t](...) (cli.py:121) returns a scanner or raises.  None
\* of the classes of SCANNERS defines run, the abstract method of
\* BaseScanner (base.py:19-22), so as they are every one of them raises
\* TypeError; "constructed" is a class that does define it.
ConstructorOutcomes == {"raises", "constructed"}

\* how run_async ends: it returns its results, or an exception leaves it
TaskOutcomes == {"returned", "raised"}

\* whether run_async of the scan type calls self.save() before it returns:
\* PortsScanner does in the finally of a run over an accepted range
\* (ports.py:62-65), and returns before it for a rejected range setting
\* (ports.py:28-38)
SavesItself(t) == IF t = "ports" THEN {TRUE, FALSE} ELSE {FALSE}

\* the scan types whose task has been created and has not ended
Running(task) == {t \in Range(ScanTypes) : task[t] = "running"}

\* task.done() (cli.py:143)
TaskDone(state) == state \in {"returned", "raised"}

\* a command that saves the document of a host only if no scanner failed
SaveIfNoError(errors) == errors = {}

\* cli.py:172 is reached whatever errors holds
SaveReached(errors) == TRUE

CliInit ==
    /\ khost = 1
    /\ kphase = "create"
    /\ knext = 1
    /\ ktask = [t \in Range(ScanTypes) |-> "waiting"]
    /\ kraised = {}
    /\ kerrors = {}
    /\ khost_state = LoadedDocument
    /\ kstore = [h \in Range(Hosts) |-> LoadedDocument]
    /\ ksaves = <<>>
    /\ kdone = {}
    /\ AcaoIdle
    /\ PortsIdle
    /\ GateIdle
    /\ ProbeIdle
    /\ FuzzIdle
    /\ ClassIdle
    /\ RunIdle
    /\ StoreIdle
    /\ MoreIdle

\* cli.py:116-133: the scanner of the next scan type is built and its task
\* created, or the constructor raises and the error is recorded
CreateScanner ==
    /\ kphase = "create"
    /\ \E outcome \in ConstructorOutcomes :
          LET t == ScanTypes[knext]
          IN  /\ ktask' = [ktask EXCEPT ![t] = IF outcome = "raises" THEN "error"
                                               ELSE "running"]
              /\ kerrors' = IF outcome = "raises" THEN kerrors \cup {t} ELSE kerrors
    /\ knext' = knext + 1
    /\ kphase' = IF knext = Len(ScanTypes) THEN "poll" ELSE "create"
    /\ UNCHANGED <<khost, kraised, khost_state, kstore, ksaves, kdone>>
    /\ UNCHANGED <<scanVars, classVars, runVars, storeVars, moreVars>>

\* The task of a scan type ends while async_scan sleeps (cli.py:170).  A
\* scanner that saves writes its own copy of the document, loaded when it
\* was built (base.py:15, 24-25), with its section as the run left it.
TaskEnds(t) ==
    /\ kphase = "poll"
    /\ ktask[t] = "running"
    /\ \E outcome \in TaskOutcomes, saves \in SavesItself(t) :
          /\ ktask' = [ktask EXCEPT ![t] = outcome]
          /\ kraised' = IF outcome = "raised" THEN kraised \cup {t} ELSE kraised
          /\ IF saves
             THEN /\ kstore' = [kstore EXCEPT ![Hosts[khost]] =
                                   [LoadedDocument EXCEPT ![t] = Scanned]]
                  /\ ksaves' = Append(ksaves, [by |-> t, running |-> Running(ktask)])
             ELSE UNCHANGED <<kstore, ksaves>>
    /\ UNCHANGED <<khost, kphase, knext, kerrors, khost_state, kdone>>
    /\ UNCHANGED <<scanVars, classVars, runVars, storeVars, moreVars>>

\* cli.py:140-160: one pass of the poll loop that finds tasks done: the
\* section of each is taken from its scanner, or its exception is recorded
Poll ==
    /\ kphase = "poll"
    /\ \E t \in Range(ScanTypes) : TaskDone(ktask[t])
    /\ ktask' = [t \in Range(ScanTypes) |->
                    IF TaskDone(ktask[t]) THEN "complete" ELSE ktask[t]]
    /\ khost_state' = [t \in Range(ScanTypes) |->
                          IF TaskDone(ktask[t]) /\ t \notin kraised THEN Scanned
                          ELSE khost_state[t]]
    /\ kerrors' = kerrors \cup {t \in Range(ScanTypes) : TaskDone(ktask[t]) /\ t \in kraised}
    /\ UNCHANGED <<khost, kphase, knext, kraised, kstore, ksaves, kdone>>
    /\ UNCHANGED <<scanVars, classVars, runVars, storeVars, moreVars>>

\* cli.py:136-139, 172: no task is left to wait for, the document is saved
SaveHost ==
    /\ kphase = "poll"
    /\ \A t \in Range(ScanTypes) : ktask[t] \in {"error", "complete"}
    /\ IF SaveReached(kerrors)
       THEN /\ kstore' = [kstore EXCEPT ![Hosts[khost]] = khost_state]
            /\ ksaves' = Append(ksaves, [by |-> "cli", running |-> Running(ktask)])
            /\ kdone' = kdone \cup {Hosts[khost]}
       ELSE UNCHANGED <<kstore, ksaves, kdone>>
    /\ kphase' = "saved"
    /\ UNCHANGED <<khost, knext, ktask, kraised, kerrors, khost_state>>
    /\ UNCHANGED <<scanVars, classVars, runVars, storeVars, moreVars>>

\* cli.py:106-115: the loop goes on to the next host and loads its document,
\* or ends
NextHost ==
    /\ kphase = "saved"
    /\ khost' = khost + 1
    /\ kphase' = IF khost = Len(Hosts) THEN "end" ELSE "create"
    /\ knext' = 1
    /\ ktask' = [t \in Range(ScanTypes) |-> "waiting"]
    /\ kraised' = {}
    /\ kerrors' = {}
    /\ khost_state' = IF khost = Len(Hosts) THEN LoadedDocument ELSE kstore[Hosts[khost + 1]]
    /\ ksaves' = <<>>
    /\ UNCHANGED <<kstore, kdone>>
    /\ UNCHANGED <<scanVars, classVars, runVars, storeVars, moreVars>>

CliNext ==
    \/ CreateScanner
    \/ \E t \in Range(ScanTypes) : TaskEnds(t)
    \/ Poll
    \/ SaveHost
    \/ NextHost

CliSpec == CliInit /\ [][CliNext]_vars

----------------------------------------------------------------------------
(* The state store (src/mch/state.py) under the targets the command line   *)
(* accepts (validate_target, src/mch/utils.py:14-26).  Targets and file    *)
(* names are sequences of characters; the acknowledged list of the ports   *)
(* section stands for a document.                                          *)

\* Target strings given on the command line; none is an IPv6 address
TargetTexts ==
    { <<"a", ".", "b", ":", "8">>,
      <<"a", ".", "b", "/", "8">>,
      <<"a", "_", "b">>,
      <<"a", ".", "b", ":">>,
      <<"h", "t", "t", "p", ":", "/", "/", "a", ".", "b">>,
      <<"1", ".", "2", ".", "3", ".", "4">> }

\* [a-zA-Z0-9.-] (utils.py:23)
IsHostChar(c) == IsLetter(c) \/ IsDigit(c) \/ c \in {".", "-"}

\* (:[0-9]+)?(/.*)?$ matches the text from position k on
MatchesTail(text, k) ==
    \/ k = Len(text) + 1
    \/ text[k] = "/"
    \/ /\ text[k] = ":"
       /\ \E m \in (k + 1)..Len(text) :
             /\ \A n \in (k + 1)..m : IsDigit(text[n])
             /\ (m = Len(text) \/ text[m + 1] = "/")

\* [a-zA-Z0-9.-]+(:[0-9]+)?(/.*)?$ matches the text from position k on
MatchesHost(text, k) ==
    \E j \in k..Len(text) :
        /\ \A n \in k..j : IsHostChar(text[n])
        /\ MatchesTail(text, j + 1)

\* the text begins with the prefix
StartsWith(text, prefix) ==
    Len(text) >= Len(prefix) /\ SubSeq(text, 1, Len(prefix)) = prefix

\* re.match of ^(https?://)?[a-zA-Z0-9.-]+(:[0-9]+)?(/.*)?$ (utils.py:23)
MatchesTarget(text) ==
    \/ MatchesHost(text, 1)
    \/ StartsWith(text, HttpPrefix) /\ MatchesHost(text, Len(HttpPrefix) + 1)
    \/ StartsWith(text, HttpsPrefix) /\ MatchesHost(text, Len(HttpsPrefix) + 1)

\* ipaddress.ip_address (utils.py:19) accepts the text: four groups of
\* digits, as for extract_ips
IsIpAddress(text) == FindAll(text, 1) = <<text>> /\ ValidAddress(text)

\* validate_target (utils.py:14-26) returns the target
ValidateTarget(target) == IsIpAddress(target) \/ MatchesTarget(target)

\* the targets the command line works on
AcceptedTargets == {target \in TargetTexts : ValidateTarget(target)}

JsonSuffix == <<".", "j", "s", "o", "n">>

\* get_state_file (state.py:13-15): the name of the target's state file
GetStateFile(target) ==
    [k \in 1..Len(target) |-> IF target[k] \in {"/", ":", "."} THEN "_" ELSE target[k]]
        \o JsonSuffix

StateFiles == {GetStateFile(target) : target \in AcceptedTargets}

NoDocument == "none"

\* the documents saved: acknowledged lists of the ports section
Documents == {<<>>, <<1>>, <<2>>}

\* a load_state that takes no state file into account
LoadIgnoresFile(files, target) == <<>>

\* load_state (state.py:17-33) for the target
LoadState(files, target) ==
    LET file == files[GetStateFile(target)]
    IN  LoadPorts(file # NoDocument, IF file = NoDocument THEN <<>> ELSE file, <<>>).acknowledged

StoreInit ==
    /\ sfiles = [f \in StateFiles |-> NoDocument]
    /\ ssaved = [target \in AcceptedTargets |-> NoDocument]
    /\ sloaded = <<>>
    /\ slast = <<>>
    /\ AcaoIdle
    /\ PortsIdle
    /\ GateIdle
    /\ ProbeIdle
    /\ FuzzIdle
    /\ ClassIdle
    /\ RunIdle
    /\ CliIdle
    /\ MoreIdle

\* save_state (state.py:43-49) of a document for a target that
\* validate_target accepted (cli.py:108, 172)
StoreSave ==
    /\ \E target \in AcceptedTargets, document \in Documents :
          /\ sfiles' = [sfiles EXCEPT ![GetStateFile(target)] = document]
          /\ ssaved' = [ssaved EXCEPT ![target] = document]
          /\ slast' = [target |-> target, document |-> document]
    /\ sloaded' = <<>>
    /\ UNCHANGED <<scanVars, classVars, runVars, cliVars, moreVars>>

\* load_state for a target that validate_target accepted (cli.py:108, 115)
StoreLoad ==
    /\ \E target \in AcceptedTargets :
          sloaded' = [target |-> target, document |-> LoadState(sfiles, target)]
    /\ UNCHANGED <<sfiles, ssaved, slast>>
    /\ UNCHANGED <<scanVars, classVars, runVars, cliVars, moreVars>>

StoreNext == StoreSave \/ StoreLoad

StoreSpec == StoreInit /\ [][StoreNext]_vars

----------------------------------------------------------------------------
(* The setup of run_async under the list-typed settings of the             *)
(* configuration (acao.py:31-47, fuzz.py:56-72).  config.toml is read by   *)
(* tomli without a check of the types (config.py:35-55), so a setting can  *)
(* hold any TOML value; a value is kept as its type and, for an array, the *)
(* types of its items.                                                     *)

Scalar(type) == [type |-> type, items |-> <<>>]
Array(items) == [type |-> "array", items |-> items]

\* the values a setting can hold
ConfigValues ==
    { Array(<<"string">>), Array(<<"string", "string">>), Array(<<>>),
      Array(<<"string", "integer">>), Array(<<"array">>),
      Scalar("string"), Scalar("table"), Scalar("integer"), Scalar("float"),
      Scalar("boolean") }

\* isinstance(value, list)
IsList(value) == value.type = "array"

\* isinstance(value, list) and all(isinstance(e, str) for e in value)
\* (acao.py:42, 45)
IsListOfStrings(value) ==
    IsList(value) /\ \A k \in 1..Len(value.items) : value.items[k] = "string"

\* len(value) is defined: the value is a list, a str or a dict
HasLen(value) == value.type \in {"array", "string", "table"}

\* what the setup of a run_async can end in: the empty result is returned,
\* an exception leaves run_async, or the run goes on to its probes and to
\* the assignment of its section
ReturnsEmpty == [end |-> "returned", probes |-> FALSE, stores |-> FALSE]
Raises == [end |-> "raised", probes |-> FALSE, stores |-> FALSE]
GoesOn == [end |-> "goes on", probes |-> TRUE, stores |-> TRUE]

\* AcaoScanner.run_async, acao.py:31-47: total_endpoints is computed with
\* len() of both settings (line 36) before their types are tested (42-47)
AcaoSetup(endpoints, malicious_origins) ==
    IF ~HasLen(endpoints) \/ ~HasLen(malicious_origins) THEN Raises
    ELSE IF ~IsListOfStrings(endpoints) THEN ReturnsEmpty
    ELSE IF ~IsListOfStrings(malicious_origins) THEN ReturnsEmpty
    ELSE GoesOn

\* FuzzScanner.run_async, fuzz.py:56-61: a string is split into file names,
\* a list is taken as it is, any other value ends the run
FuzzSetup(wordlist_files) ==
    IF wordlist_files.type = "string" THEN GoesOn
    ELSE IF ~IsList(wordlist_files) THEN ReturnsEmpty
    ELSE GoesOn

CfgInit ==
    /\ qendpoints \in ConfigValues
    /\ qorigins \in ConfigValues
    /\ qwordlist \in ConfigValues
    /\ qscanner = "none"
    /\ qsetup = <<>>
    /\ BaseIdle
    /\ DocIdle

\* run_async of the ACAO scanner is called under the configuration
AcaoSetupRun ==
    /\ qscanner' = "acao"
    /\ qsetup' = AcaoSetup(qendpoints, qorigins)
    /\ UNCHANGED <<qendpoints, qorigins, qwordlist>>
    /\ UNCHANGED <<scanVars, classVars, runVars, cliVars, storeVars, docVars>>

\* run_async of the fuzz scanner is called under the configuration
FuzzSetupRun ==
    /\ qscanner' = "fuzz"
    /\ qsetup' = FuzzSetup(qwordlist)
    /\ UNCHANGED <<qendpoints, qorigins, qwordlist>>
    /\ UNCHANGED <<scanVars, classVars, runVars, cliVars, storeVars, docVars>>

CfgNext == AcaoSetupRun \/ FuzzSetupRun

CfgSpec == CfgInit /\ [][CfgNext]_vars

----------------------------------------------------------------------------
(* The legacy reconciliation of AcaoWeakScanner (acao_weak.py:114-136) and *)
(* AcaoLeakScanner (acao_leak.py:116-145, where the category field is      *)
(* called leak_type), on the issue list of their section of the document.  *)

\* _handle_issue (acao_weak.py:200-212) and _handle_leak_detection
\* (acao_leak.py:213-225) on the first stored issue of the same identity
LegacyHandleExisting(status) ==
    IF status \in {"fixed", "false_positive"}
    THEN [status |-> "uncategorized", returns |-> "existing"]
    ELSE [status |-> status, returns |-> "none"]

\* _handle_issue (acao_weak.py:192-214) on state_issues st
LegacyHandleIssue(issue, st) ==
    LET matches == {i \in 1..Len(st) : SameIdentity(st[i], issue)}
    IN  IF matches = {}
        THEN [st |-> st, returns |-> "new", ref |-> 0]
        ELSE LET i == MinOf(matches)
                 h == LegacyHandleExisting(st[i].status)
             IN  [st |-> [st EXCEPT ![i].status = h.status],
                  returns |-> h.returns,
                  ref |-> IF h.returns = "existing" THEN i ELSE 0]

RECURSIVE LegacyFirstPass(_, _, _)
\* acao_weak.py:113-119 over the issues the classification built, from
\* position n on; every handled issue is reported
LegacyFirstPass(fnd, n, acc) ==
    IF n > Len(fnd) THEN acc
    ELSE LET issue == fnd[n]
             key == IssueKey(issue)
         IN  IF key \in acc.detected_keys
             THEN LegacyFirstPass(fnd, n + 1, acc)
             ELSE LET h == LegacyHandleIssue(issue, acc.st)
                      entry == [ref |-> h.ref, issue |-> issue]
                      handled == h.returns # "none"
                  IN  LegacyFirstPass(fnd, n + 1,
                        [detected_keys |-> acc.detected_keys \cup {key},
                         st |-> h.st,
                         detected_issues |->
                            IF handled THEN Append(acc.detected_issues, entry)
                            ELSE acc.detected_issues,
                         results |->
                            IF handled THEN Append(acc.results, key) ELSE acc.results])

\* a reconciliation that keeps the uncategorized issues it does not detect
LegacyKeepsUncategorized(status) ==
    IF status = "wont_fix" THEN [keep |-> TRUE, status |-> "fixed"]
    ELSE [keep |-> TRUE, status |-> status]

\* acao_weak.py:127-134, acao_leak.py:136-143: a stored issue whose key was
\* not detected, by its status
LegacyMissing(status) ==
    IF status = "uncategorized" THEN [keep |-> FALSE, status |-> status]
    ELSE IF status = "wont_fix" THEN [keep |-> TRUE, status |-> "fixed"]
    ELSE [keep |-> TRUE, status |-> status]

RECURSIVE LegacyKeptFrom(_, _, _)
\* new_issues (acao_weak.py:122-134) as the positions of the stored issues
\* kept, in order
LegacyKeptFrom(st, detected_keys, n) ==
    IF n > Len(st) THEN <<>>
    ELSE LET rest == LegacyKeptFrom(st, detected_keys, n + 1)
         IN  IF IssueKey(st[n]) \in detected_keys \/ LegacyMissing(st[n].status).keep
             THEN <<n>> \o rest
             ELSE rest

\* acao_weak.py:56-136: the reconciliation of one run
LegacyReconcile(state_issues, fnd) ==
    LET first == LegacyFirstPass(fnd, 1, [detected_keys |-> {}, st |-> state_issues,
                                          detected_issues |-> <<>>, results |-> <<>>])
        kept == LegacyKeptFrom(first.st, first.detected_keys, 1)
        st2 == [i \in 1..Len(first.st) |->
                   IF IssueKey(first.st[i]) \in first.detected_keys THEN first.st[i]
                   ELSE [first.st[i] EXCEPT !.status = LegacyMissing(first.st[i].status).status]]
        new_issues == [j \in 1..Len(kept) |-> st2[kept[j]]]
        detected_issues ==
            [j \in 1..Len(first.detected_issues) |->
                IF first.detected_issues[j].ref = 0
                THEN first.detected_issues[j].issue
                ELSE st2[first.detected_issues[j].ref]]
    IN  [issues |-> new_issues \o detected_issues, results |-> first.results]

\* the issue list of the section as AcaoInit has it
LegacyInit == AcaoInit

\* AcaoWeakScanner.run_async (acao_weak.py:21-146) on the persisted list;
\* fnd is the sequence of issues its classification builds
LegacyScan ==
    \E ks \in SeqsUpTo(Identities, MaxFound) :
        LET fnd == [i \in 1..Len(ks) |-> NewIssue(ks[i])]
            r == LegacyReconcile(issues, fnd)
        IN  /\ Len(r.issues) <= MaxIssues
            /\ issues' = r.issues
            /\ prior' = issues
            /\ found' = fnd
            /\ returned' = r.results
            /\ repeat' = (aop = "scan" /\ found = fnd)
            /\ aop' = "scan"
            /\ UNCHANGED <<portVars, gateVars, probeVars, fuzzVars, restVars>>

LegacyNext == LegacyScan \/ AcaoAck

LegacySpec == LegacyInit /\ [][LegacyNext]_vars

----------------------------------------------------------------------------
(* The document of one target over port scans, fuzz scans and ack sessions *)

\* the most entries the acknowledgment lists of the fuzz section hold together
MaxAcked == 1

\* the options of the prompt of a fuzz issue (cli.py:293), "skip" last
AckLists == {"will_fix", "false_positive", "wont_fix"}
FuzzAnswers == AckLists \cup {"skip"}

\* the ports.range setting of these port scans, "1-2" (ports.py:26, 32)
DocRange == <<1, 2>>

\* range(start, end + 1) (ports.py:45)
RangePorts == [k \in 1..(DocRange[2] - DocRange[1] + 1) |-> DocRange[1] + k - 1]

\* sorted(all_open_ports) (ports.py:47-55)
SortedPorts(open) ==
    LET IsOpen(p) == p \in open
    IN  SelectSeq(RangePorts, IsOpen)

\* load_state (state.py:17-33) on the state file of the target
LoadDocument(exists, doc) ==
    IF exists
    THEN [doc EXCEPT !.ports = LoadPorts(TRUE, doc.ports.acknowledged,
                                         doc.ports.current_open)]
    ELSE DefaultDocument

\* a run that puts the list of its open ports into both lists
PortRunAcknowledges(doc, accepted, open) ==
    IF accepted
    THEN [doc EXCEPT !.ports.current_open = SortedPorts(open),
                     !.ports.acknowledged = SortedPorts(open)]
    ELSE doc

\* PortsScanner.run_async (ports.py:19-67) on self.state: the open ports of
\* an accepted range are stored at ports.py:55, a rejected range returns at
\* ports.py:28-38
PortRun(doc, accepted, open) ==
    IF accepted
    THEN [doc EXCEPT !.ports.current_open = SortedPorts(open)]
    ELSE doc

\* FuzzScanner.run_async (fuzz.py:46-126) on self.state: with a viable
\* scheme the URLs found are merged into fuzz.issues at fuzz.py:116, without
\* one the run returns at fuzz.py:94-96
FuzzRun(doc, viable, found_issues) ==
    IF viable
    THEN [doc EXCEPT !.fuzz.issues = Persisted(doc.fuzz.issues, found_issues)]
    ELSE doc

\* list.remove(x): the list without the first x
Remove(list, x) ==
    LET at == MinOf({j \in 1..Len(list) : list[j] = x})
    IN  SubSeq(list, 1, at - 1) \o SubSeq(list, at + 1, Len(list))

RECURSIVE AckFuzz(_, _, _, _)
\* the loop over fuzz_issues (cli.py:290-301) from its n-th pass on;
\* fuzz_issues is state["fuzz"]["issues"] itself (cli.py:290), so the n-th
\* pass takes the item at index n of the list as the passes before left it
AckFuzz(fuzz, responses, n, shown) ==
    IF n >= Len(fuzz.issues)
    THEN [fuzz |-> fuzz, shown |-> shown]
    ELSE LET path == fuzz.issues[n + 1]
             response == responses[Len(shown) + 1]
             next == IF response \in AckLists
                     THEN [fuzz EXCEPT !.issues = Remove(@, path),
                                       ![response] = Append(@, path)]
                     ELSE fuzz
         IN  AckFuzz(next, responses, n + 1, Append(shown, path))

\* the lists of found URLs a fuzz run can build (fuzz.py:99-114) on a server
\* that has no /admin.bak under https
FoundLists == {SortedSet(S) : S \in SUBSET Range(SubSeq(UrlOrder, 1, 3))}

\* how many entries the acknowledgment lists hold
Acked(fuzz) == Len(fuzz.will_fix) + Len(fuzz.false_positive) + Len(fuzz.wont_fix)

\* No state file, or the state file an ACAO run on a new target left
DocInit ==
    /\ dfile \in BOOLEAN
    /\ ddoc \in {[DefaultDocument EXCEPT !.acao = a] :
                        a \in (IF dfile THEN {<<>>, <<"uncategorized">>} ELSE {<<>>})}
    /\ dloaded = DefaultDocument
    /\ dop = "init"
    /\ dshown = <<>>
    /\ danswers = <<>>
    /\ BaseIdle
    /\ CfgIdle

\* mch scan <target> ports: the document is loaded (base.py:15), the
\* scanner runs and the document is saved (ports.py:65, cli.py:151, 172)
DocPortScan ==
    \E accepted \in BOOLEAN, open \in SUBSET Range(RangePorts) :
        LET loaded == LoadDocument(dfile, ddoc)
        IN  /\ ddoc' = PortRun(loaded, accepted, open)
            /\ dloaded' = loaded
            /\ dfile' = TRUE
            /\ dop' = "ports"
            /\ dshown' = <<>>
            /\ danswers' = <<>>
            /\ UNCHANGED <<scanVars, classVars, runVars, cliVars, storeVars, cfgVars>>

\* mch scan <target> fuzz: the document is loaded (base.py:15), the scanner
\* runs and its section is saved with the document (cli.py:151, 172)
DocFuzzScan ==
    \E viable \in BOOLEAN, found_issues \in FoundLists :
        LET loaded == LoadDocument(dfile, ddoc)
        IN  /\ ddoc' = FuzzRun(loaded, viable, found_issues)
            /\ dloaded' = loaded
            /\ dfile' = TRUE
            /\ dop' = "fuzz"
            /\ dshown' = <<>>
            /\ danswers' = <<>>
            /\ UNCHANGED <<scanVars, classVars, runVars, cliVars, storeVars, cfgVars>>

\* mch ack <target> (cli.py:264-328) on a terminal: the document is loaded,
\* the new ports and the fuzz issues are asked about, the document is saved.
\* The sections acao-leak and acao-weak hold no issue in this document.
DocAck ==
    LET loaded == LoadDocument(dfile, ddoc)
        asked == NotIn(loaded.ports.current_open, loaded.ports.acknowledged)
    IN  \E accepted \in SUBSET Range(asked),
           responses \in [1..Len(loaded.fuzz.issues) -> FuzzAnswers] :
            LET IsAccepted(p) == p \in accepted
                session == AckFuzz(loaded.fuzz, responses, 0, <<>>)
            IN  /\ Acked(session.fuzz) <= MaxAcked
                /\ ddoc' = [loaded EXCEPT
                                  !.ports.acknowledged = @ \o SelectSeq(asked, IsAccepted),
                                  !.fuzz = session.fuzz]
                /\ dloaded' = loaded
                /\ dfile' = TRUE
                /\ dop' = "ack"
                /\ dshown' = session.shown
                /\ danswers' = SubSeq(responses, 1, Len(session.shown))
                /\ UNCHANGED <<scanVars, classVars, runVars, cliVars, storeVars, cfgVars>>

DocNext == DocPortScan \/ DocFuzzScan \/ DocAck

DocSpec == DocInit /\ [][DocNext]_vars

----------------------------------------------------------------------------
(* Properties of the ACAO reconciliation *)

KeysOf(st) == {IssueKey(st[i]) : i \in 1..Len(st)}

DetectedKeys == KeysOf(found)

\* the statuses of the entries of st with identity key, in list order
StatusesOf(st, key) ==
    LET Has(e) == IssueKey(e) = key
        sel == SelectSeq(st, Has)
    IN  [j \in 1..Len(sel) |-> sel[j].status]

\* C1: identity uniqueness - the persisted issue list never holds two entries
\* with the same (scheme, hostname, endpoint, category, detail).
C1_IdentityUnique ==
    \A i, j \in 1..Len(issues) : i # j => IssueKey(issues[i]) # IssueKey(issues[j])

\* C2: a run never deletes an issue - every identity of the prior list and
\* every identity detected by the run is in the list the run writes.
C2_NeverDeleted ==
    aop = "scan" => (KeysOf(prior) \cup DetectedKeys) \subseteq KeysOf(issues)

\* C3: regression - a prior issue with status resolved or fixed whose identity
\* is detected by the run has status uncategorized in the list the run writes.
C3_Regression ==
    aop = "scan" =>
        \A k \in DetectedKeys :
            LET p == StatusesOf(prior, k)
                q == StatusesOf(issues, k)
            IN  /\ Len(q) >= Len(p)
                /\ \A j \in 1..Len(p) :
                      p[j] \in {"resolved", "fixed"} => q[j] = "uncategorized"

C3_Witness ==
    /\ aop = "scan"
    /\ \E i \in 1..Len(prior) :
          /\ prior[i].status = "fixed"
          /\ IssueKey(prior[i]) \in DetectedKeys
          /\ StatusesOf(issues, IssueKey(prior[i]))[1] = "uncategorized"

\* C4: a prior issue with status false_positive or wont_fix whose identity is
\* detected by the run keeps its status in the list the run writes.
C4_AcknowledgedKept ==
    aop = "scan" =>
        \A k \in DetectedKeys :
            LET p == StatusesOf(prior, k)
                q == StatusesOf(issues, k)
            IN  /\ Len(q) >= Len(p)
                /\ \A j \in 1..Len(p) :
                      p[j] \in {"false_positive", "wont_fix"} => q[j] = p[j]

\* C5: a prior issue with status uncategorized or will_fix whose identity is
\* detected by the run keeps its status, and when _handle_issue meets it (it
\* is the first stored issue of its identity) no further entry of that
\* identity is appended.
C5_OpenKept ==
    aop = "scan" =>
        \A k \in DetectedKeys :
            LET p == StatusesOf(prior, k)
                q == StatusesOf(issues, k)
            IN  /\ Len(q) >= Len(p)
                /\ \A j \in 1..Len(p) :
                      p[j] \in {"uncategorized", "will_fix"} => q[j] = p[j]
                /\ (Len(p) > 0 /\ p[1] \in {"uncategorized", "will_fix"}) => Len(q) = Len(p)

C5_Witness ==
    /\ aop = "scan"
    /\ \E i \in 1..Len(prior) :
          /\ prior[i].status = "will_fix"
          /\ IssueKey(prior[i]) \in DetectedKeys
          /\ StatusesOf(issues, IssueKey(prior[i])) = <<"will_fix">>

\* the status the table of the reconciliation gives an issue that is not re-detected
NotRedetected(status) == IF status = "false_positive" THEN status ELSE "resolved"

----------------------------------------------------------------------------
(* Properties of the port baseline *)

\* a port answered one of the attempts of the last run with a connection
Connected(p) == \E a \in 1..Len(answers[p]) : answers[p][a] = "connected"

\* the ports whose probe of the last run connected
OpenPorts == {p \in DOMAIN answers : Connected(p)}

NoRepeats(s) == \A i, j \in 1..Len(s) : i # j => s[i] # s[j]

\* C9: port baseline - the new_ports a scan returns holds exactly the ports
\* open in that run that are not acknowledged, and so no acknowledged port.
C9_PortBaseline ==
    pop = "scan" =>
        /\ Range(new_ports) = OpenPorts \ Range(acknowledged)
        /\ NoRepeats(new_ports)

C9_Witness ==
    /\ pop = "scan"
    /\ Range(acknowledged) = {1}
    /\ OpenPorts = {1, 2}
    /\ new_ports = <<2>>

\* C10: after a scan over an accepted range [start, end], current_open is the
\* ascending list of the ports of the range that connected in this run,
\* acknowledged or not; a port that was open in an earlier run and does not
\* answer now is not in it.
C10_CurrentOpen ==
    (pop = "scan" /\ ValidRange(scan_range)) =>
        /\ Ascending(current_open)
        /\ Range(current_open) =
              {p \in Ports : scan_range[1] <= p /\ p <= scan_range[2] /\ Connected(p)}

C10_Witness ==
    /\ pop = "scan"
    /\ ValidRange(scan_range)
    /\ open_before = <<1, 2>>
    /\ 1 \in Range(acknowledged)
    /\ answers[2] = <<"refused", "refused", "refused">>
    /\ current_open = <<1>>

\* the setting reads N-M with 1 <= N <= M <= 65535
WellFormed(rng) ==
    /\ Len(rng) = 2
    /\ rng[1] >= 1
    /\ rng[1] <= rng[2]
    /\ rng[2] <= PortLimit

\* C11: a scan whose ports.range setting is not of the form N-M, or does not
\* satisfy 1 <= start <= end <= 65535, attempts no connection, returns an
\* empty new_ports and leaves the persisted current_open and acknowledged
\* lists as they were.
C11_InvalidRange ==
    (pop = "scan" /\ ~WellFormed(scan_range)) =>
        /\ \A p \in DOMAIN answers : answers[p] = NotProbed
        /\ new_ports = <<>>
        /\ current_open = open_before

C11_Witness ==
    /\ pop = "scan"
    /\ scan_range = <<0, 1>>
    /\ open_before = <<1, 2>>
    /\ current_open = <<1, 2>>
    /\ new_ports = <<>>
    /\ answers[1] = NotProbed

----------------------------------------------------------------------------
(* Properties of the concurrency gate *)

\* the probes that have started and not yet returned
InFlight == gattempting + gsleeping

\* C12: bounded concurrency - at every moment of a port scan at most 100
\* port probes are in flight, and at every moment of a fuzz scan at most
\* fuzz.concurrency path probes are in flight.
C12_BoundedConcurrency ==
    /\ gkind = "ports" => InFlight <= 100
    /\ gkind = "fuzz" => InFlight <= glimit

C12_Witness ==
    /\ gkind = "ports"
    /\ InFlight = 100
    /\ gsleeping > 0
    /\ gqueued > 0
    /\ gvalue = 0

\* C13: the probes of an ACAO scan pass the concurrency gate - the number of
\* check_endpoint calls in flight never exceeds the gate's limit, however
\* many endpoints and origin templates are configured.
C13_AcaoGated ==
    gkind = "acao" => InFlight <= PortsConcurrency

----------------------------------------------------------------------------
(* Properties of the probe functions *)

HasReturned(i) == ppc[i] = "returned"

\* the failures the retry policy is for: refused or timed-out connections
\* and rate limiting
TransientFailure(o) ==
    \/ o.kind \in {"refused", "connect_error"}
    \/ o.kind = "status_error" /\ o.status = 429

\* what a probe function returns for a probe that found nothing
FailureMarker ==
    CASE pkind = "port" -> FALSE
      [] pkind = "path" -> [success |-> FALSE, status |-> <<>>]
      [] pkind = "endpoint" -> <<>>
      [] OTHER -> FALSE

\* C14: bounded retry - every probe makes at most 3 attempts; a probe whose
\* 3 attempts all failed transiently returns its failure marker, and
\* whatever the other probe of the batch does, a probe whose attempts failed
\* transiently until one connected or was answered 200 returns a success.
C14_BoundedRetry ==
    \A i \in DOMAIN ptrace :
        LET n == Len(ptrace[i])
        IN  /\ n <= 3
            /\ (n = 3 /\ HasReturned(i)
                  /\ \A a \in 1..n : TransientFailure(ptrace[i][a]))
                  => presult[i] = <<FailureMarker>>
            /\ (n >= 1 /\ ptrace[i][n].kind = "connected"
                  /\ \A a \in 1..(n - 1) : TransientFailure(ptrace[i][a]))
                  => presult[i] = <<TRUE>>
            /\ (n >= 1 /\ pkind = "path" /\ ptrace[i][n] = Response(200, Welcome)
                  /\ \A a \in 1..(n - 1) : TransientFailure(ptrace[i][a]))
                  => presult[i] = <<[success |-> TRUE, status |-> <<200>>]>>

C14_Witness ==
    /\ pkind = "path"
    /\ ptrace[1] = <<Outcome("connect_error"), StatusError(429), Outcome("connect_error")>>
    /\ presult[1] = <<[success |-> FALSE, status |-> <<>>]>>
    /\ ptrace[2] = <<StatusError(429), Response(200, Welcome)>>
    /\ presult[2] = <<[success |-> TRUE, status |-> <<200>>]>>

\* C15: a non-transient error is not retried - an attempt that fails with an
\* unexpected exception is the last attempt of its probe, so a probe whose
\* first attempt fails that way makes exactly one attempt.
C15_NoRetry ==
    \A i \in DOMAIN ptrace :
        \A a \in 1..Len(ptrace[i]) :
            ptrace[i][a].kind = "error" => (HasReturned(i) /\ a = Len(ptrace[i]))

\* C16: the scanned count is incremented exactly once per probe, whatever
\* its attempts and its outcome: a probe has counted once when it has
\* returned and not before, and the count is the number of returned probes,
\* so it is the number of probes issued when all have returned.
C16_CountedOnce ==
    pkind \in {"port", "path", "endpoint"} =>
        /\ \A i \in DOMAIN ppc : pcounted[i] = IF HasReturned(i) THEN 1 ELSE 0
        /\ pscanned = Cardinality({i \in DOMAIN ppc : HasReturned(i)})

C16_Witness ==
    /\ pkind = "path"
    /\ ptrace[1] = <<StatusError(429), StatusError(429), StatusError(429)>>
    /\ ptrace[2] = <<Outcome("error"), Outcome("connect_error"), Response(200, Welcome)>>
    /\ HasReturned(1) /\ HasReturned(2)
    /\ pscanned = 2

\* C17: a path probe answered with status 429 is retried - unless it was the
\* third attempt, a 429 response is not the last attempt of a probe that
\* has returned.
C17_RateLimitRetried ==
    pkind = "path" =>
        \A i \in DOMAIN ptrace :
            \A a \in 1..Len(ptrace[i]) :
                (a < 3 /\ ptrace[i][a].kind = "response" /\ ptrace[i][a].status = 429
                    /\ HasReturned(i))
                    => Len(ptrace[i]) > a

----------------------------------------------------------------------------
(* Properties of the fuzz scanner *)

\* the two characters are one letter, in whatever case
SameLetter(c, d) ==
    \/ c = d
    \/ \E k \in 1..Len(UpperCase) : {c, d} = {UpperCase[k], LowerCase[k]}

\* the text holds the words, in any letter case
Mentions(text, words) ==
    \E k \in 0..(Len(text) - Len(words)) :
        \A j \in 1..Len(words) : SameLetter(text[k + j], words[j])

\* the path of the scheme was probed by the last run
WasProbed(scheme, path) == fgets[<<scheme, path>>].attempts > 0

\* the last answer the probe of the path got
FinalAnswer(scheme, path) ==
    fgets[<<scheme, path>>].answers[fgets[<<scheme, path>>].attempts]

\* the answer is a response that makes a finding
IsFinding(o) ==
    /\ o.kind = "response"
    /\ o.status \in {200, 301, 302}
    /\ o.status = 200 =>
          /\ ~Mentions(o.body, <<"4", "0", "4">>)
          /\ ~Mentions(o.body, <<"n", "o", "t", " ", "f", "o", "u", "n", "d">>)

\* C18: a probed path is in the findings of the run if and only if its final
\* response has status 200, 301 or 302 and, for 200, a body that holds
\* neither "404" nor "not found" in any letter case; a URL the run adds to
\* fuzz.issues is such a finding.
C18_FindingRule ==
    fop = "scan" =>
        \A scheme \in Range(Schemes) :
            \A path \in Range(Paths) :
                LET hit == WasProbed(scheme, path) /\ IsFinding(FinalAnswer(scheme, path))
                IN  /\ Url(scheme, path) \in Range(fuzz_found) <=> hit
                    /\ Url(scheme, path) \in Range(fuzz_issues) \ Range(fuzz_prior) => hit

C18_Witness ==
    /\ fop = "scan"
    /\ fgets[<<"http", "/admin">>].answers = <<Response(200, NotFoundPage)>>
    /\ fgets[<<"http", "/admin.bak">>].answers = <<Response(200, Welcome)>>
    /\ fgets[<<"https", "/admin">>].answers = <<Response(200, Error404Page)>>
    /\ fgets[<<"https", "/admin.bak">>].answers = <<Outcome("connect_error"), Response(302, <<>>)>>
    /\ fuzz_found = <<"http://test.local/admin.bak", "https://test.local/admin.bak">>
    /\ fuzz_issues = fuzz_found

\* C19: after a fuzz scan fuzz.issues is the union, without duplicates, of
\* what it held before the scan and the findings of the scan; so no scan
\* removes a URL from it.
C19_IssuesUnion ==
    fop = "scan" =>
        /\ Range(fuzz_issues) = Range(fuzz_prior) \cup Range(fuzz_found)
        /\ \A i, j \in 1..Len(fuzz_issues) : i # j => fuzz_issues[i] # fuzz_issues[j]

C19_Witness ==
    /\ fop = "scan"
    /\ fuzz_prior = <<"http://test.local/admin", "https://test.local/admin">>
    /\ fuzz_found = <<"http://test.local/admin.bak", "https://test.local/admin">>
    /\ fuzz_issues = <<"http://test.local/admin", "http://test.local/admin.bak",
                       "https://test.local/admin">>

\* the HEAD attempt a of the scheme is answered with a status below 500
AnsweredBelow500(scheme, a) ==
    /\ a <= Len(fheads[scheme].answers)
    /\ fheads[scheme].answers[a].kind = "response"
    /\ fheads[scheme].answers[a].status < 500

\* C20: a scheme is viable if and only if one of at most 3 HEAD attempts on
\* "/" is answered with a status below 500, and the attempts stop at the
\* first such answer; every path of a viable scheme is probed, and for a
\* scheme that is not viable no path is probed and no finding is made.
C20_SchemeViability ==
    fop = "scan" =>
        \A scheme \in Range(Schemes) :
            LET good == {a \in 1..3 : AnsweredBelow500(scheme, a)}
            IN  IF good # {}
                THEN /\ fheads[scheme].attempts = MinOf(good)
                     /\ \A path \in Range(Paths) : WasProbed(scheme, path)
                ELSE /\ fheads[scheme].attempts = 3
                     /\ \A path \in Range(Paths) :
                           /\ ~WasProbed(scheme, path)
                           /\ Url(scheme, path) \notin Range(fuzz_found)

C20_Witness ==
    /\ fop = "scan"
    /\ fheads["http"].answers =
          <<Response(503, <<>>), Outcome("connect_error"), Response(500, <<>>)>>
    /\ fheads["http"].attempts = 3
    /\ fheads["https"].answers =
          <<Outcome("connect_error"), Response(404, <<>>), Response(404, <<>>)>>
    /\ fheads["https"].attempts = 2
    /\ ~WasProbed("http", "/admin")
    /\ fuzz_found = <<"https://test.local/admin">>

\* C21: when neither http nor https passes the viability check, the fuzz
\* scan returns an empty findings list, probes no path and leaves the
\* persisted fuzz.issues as it found it.
C21_NoViableScheme ==
    (fop = "scan"
        /\ \A scheme \in Range(Schemes) : \A a \in 1..3 : ~AnsweredBelow500(scheme, a))
    => /\ fuzz_found = <<>>
       /\ \A scheme \in Range(Schemes) : \A path \in Range(Paths) : ~WasProbed(scheme, path)
       /\ fuzz_issues = fuzz_prior

C21_Witness ==
    /\ fop = "scan"
    /\ \A scheme \in Range(Schemes) : \A a \in 1..3 : ~AnsweredBelow500(scheme, a)
    /\ fheads["http"].attempts = 3
    /\ fheads["https"].attempts = 3
    /\ fuzz_prior = <<"http://test.local/admin", "https://test.local/admin.bak">>
    /\ fuzz_issues = fuzz_prior
    /\ fuzz_found = <<>>

\* the scheme passed the viability check of the last run
WasViable(scheme) == \E a \in 1..MaxRetries : AnsweredBelow500(scheme, a)

\* the paths that the words and the extensions of the last run name
Enumerated == {"/" \o fwords[i] \o e : i \in 1..Len(fwords), e \in {""} \cup Range(Extensions)}

\* how many scan_path tasks the last run made for the path on the scheme
ProbeCount(scheme, path) ==
    Cardinality({k \in 1..Len(ftasks[scheme]) : ftasks[scheme][k] = path})

\* how many times the findings of the last run hold the URL
FoundCount(url) == Cardinality({k \in 1..Len(fuzz_found) : fuzz_found[k] = url})

\* how many pairs of a wordlist entry and an extension (or none) name the path
NamedBy(path) ==
    Cardinality({ie \in (1..Len(fwords)) \X ({""} \cup Range(Extensions)) :
                    "/" \o fwords[ie[1]] \o ie[2] = path})

\* C22 as stated: for each viable scheme the probed paths are exactly the
\* paths "/" + word + extension (or no extension) of the wordlist, each of
\* them probed once; total_paths is the number of viable schemes times the
\* number of wordlist entries times one more than the number of extensions;
\* the findings are exactly the probed URLs whose final answer satisfies the
\* finding rule.
C22_Enumeration ==
    fop = "scan" =>
        /\ \A scheme \in Range(Schemes) :
              WasViable(scheme) =>
                 /\ Range(ftasks[scheme]) = Enumerated
                 /\ \A path \in Enumerated :
                       /\ ProbeCount(scheme, path) = 1
                       /\ WasProbed(scheme, path)
        /\ ftotal = Cardinality({scheme \in Range(Schemes) : WasViable(scheme)})
                       * Len(fwords) * (1 + Len(Extensions))
        /\ Range(fuzz_found) =
              {Url(scheme, path) : <<scheme, path>> \in
                  {sp \in Range(Schemes) \X Range(Paths) :
                      WasProbed(sp[1], sp[2]) /\ IsFinding(FinalAnswer(sp[1], sp[2]))}}

\* C22, amended: as C22_Enumeration, but a path is probed once for each pair
\* of a wordlist entry and an extension (or none) that names it, and the
\* findings hold the URL of a probed path once for each of its probes whose
\* answer satisfies the finding rule and not at all otherwise.
C22_EnumerationPerEntry ==
    fop = "scan" =>
        /\ \A scheme \in Range(Schemes) :
              WasViable(scheme) =>
                 /\ Range(ftasks[scheme]) = Enumerated
                 /\ \A path \in Enumerated :
                       /\ ProbeCount(scheme, path) = NamedBy(path)
                       /\ WasProbed(scheme, path)
        /\ ftotal = Cardinality({scheme \in Range(Schemes) : WasViable(scheme)})
                       * Len(fwords) * (1 + Len(Extensions))
        /\ \A scheme \in Range(Schemes) : \A path \in Range(Paths) :
              FoundCount(Url(scheme, path)) =
                 IF WasProbed(scheme, path) /\ IsFinding(FinalAnswer(scheme, path))
                 THEN ProbeCount(scheme, path)
                 ELSE 0
        /\ \A k \in 1..Len(fuzz_found) :
              \E scheme \in Range(Schemes), path \in Range(Paths) :
                 fuzz_found[k] = Url(scheme, path)

\* a run on a wordlist that holds the word admin twice: http is viable,
\* https is not, /admin answers 200 "OK" and /admin.bak 404
C22_Witness ==
    /\ fop = "scan"
    /\ fwords = <<"admin", "admin">>
    /\ WasViable("http")
    /\ ~WasViable("https")
    /\ ftasks["http"] = <<"/admin", "/admin.bak", "/admin", "/admin.bak">>
    /\ ftotal = 4
    /\ fgets[<<"http", "/admin">>].answers = <<Response(200, Welcome)>>
    /\ fgets[<<"http", "/admin.bak">>].answers = <<Response(404, NotFoundPage)>>
    /\ fuzz_found = <<"http://test.local/admin", "http://test.local/admin">>

\* the forms of the target's own origin
OwnForms == {TargetText, HttpPrefix \o TargetText, HttpsPrefix \o TargetText}

\* the host of the text is the host
HostIs(text, host) == ~UrlHostname(text).raises /\ UrlHostname(text).host = host

\* the text is four numbers of at most 255, without leading zeros, with
\* dots between them
IsAddress(text) ==
    /\ Len(Split(text)) = 4
    /\ \A k \in 1..Len(Split(text)) :
          LET group == Split(text)[k]
          IN  /\ Len(group) \in 1..3
              /\ \A j \in 1..Len(group) : IsDigit(group[j])
              /\ Len(group) > 1 => group[1] # "0"
              /\ Number(group) <= 255

\* the text holds an IPv4 literal: an address that is no part of a longer
\* number or word
HoldsAddress(text) ==
    \E i \in 1..Len(text) : \E j \in i..Len(text) :
        /\ IsAddress(SubSeq(text, i, j))
        /\ i = 1 \/ ~IsWord(text[i - 1])
        /\ j = Len(text) \/ ~IsWord(text[j + 1])

\* C23: the answer to a probe with the target's own origin holds a candidate
\* that is none of the target, "http://" + target, "https://" + target and
\* whose host is not the target's: the candidate yields an issue, leaked_ip
\* if it holds an IPv4 literal and leaked_domain if not, with the candidate
\* as its detail.
C23_OwnOriginLeak ==
    (cpc = "classified"
        /\ corigin = OriginOf(cscheme)
        /\ cacao \notin OwnForms
        /\ ~HostIs(cacao, TargetText))
    => /\ cresult.end = "issue"
       /\ cresult.weak_type = (IF HoldsAddress(cacao) THEN "leaked_ip" ELSE "leaked_domain")
       /\ cresult.detail = cacao

\* C24: the answer to a probe with another origin than the target's own
\* holds the very origin of the probe: the candidate yields an issue of
\* category arbitrary with the candidate as its detail, and no confirmation
\* probe is sent for it.
C24_Reflection ==
    (cpc = "classified" /\ corigin # OriginOf(cscheme) /\ cacao = corigin)
    => cresult = Classified("arbitrary", cacao, 0)

C24_Witness ==
    /\ cpc = "classified"
    /\ cscheme = "https"
    /\ corigin = MaliciousOrigin
    /\ cacao = MaliciousOrigin
    /\ cconfirm = "reflected"
    /\ cresult.weak_type = "arbitrary"
    /\ cresult.probes = 0

\* C25: a candidate whose host is the target's host yields no issue, whatever
\* the scheme and the origin of the probe and whatever a confirmation probe
\* would be answered.
C25_OwnHost ==
    (cpc = "classified" /\ HostIs(cacao, TargetText))
    => cresult.end = "none" /\ cresult.probes = 0

C25_Witness ==
    /\ cpc = "classified"
    /\ cscheme = "http"
    /\ corigin = ArbitraryOrigin
    /\ cacao = HttpsPrefix \o TargetText
    /\ cconfirm = "reflected"
    /\ cresult = NoIssue(0)

\* the tasks of the scheme
TasksOf(scheme) == {k \in 1..Len(Tasks) : Tasks[k].scheme = scheme}

\* every probe of the run failed, or the probes of one scheme failed and
\* those of the other scheme were answered
SomeSchemeDown ==
    \/ \A k \in 1..Len(Tasks) : ranswers[k].failed
    \/ \E down, up \in Range(AcaoSchemes) :
          /\ down # up
          /\ \A k \in TasksOf(down) : ranswers[k].failed
          /\ \A k \in TasksOf(up) : ~ranswers[k].failed

\* what the classification makes of a value of the answer to task k
ClassOf(k, value) == Classifications[<<Tasks[k].scheme, Tasks[k].origin, value, rconfirm>>]

\* C26: in a run whose probes all fail, or fail on one scheme while the
\* other scheme answers, run_async comes to its end, no issue comes from a
\* failed probe, and every finding of an answered probe is in the issues the
\* run leaves in the document.
C26_ProbeFailures ==
    (rend # "init" /\ SomeSchemeDown)
    => /\ rend \in {"stored", "aborted"}
       /\ \A j \in 1..Len(rfound) : ~ranswers[rfound[j].task].failed
       /\ \A k \in 1..Len(Tasks) : \A n \in 1..Len(ranswers[k].values) :
             ClassOf(k, ranswers[k].values[n]).end = "issue" =>
                \E i \in 1..Len(rissues) :
                   /\ rissues[i].scheme = Tasks[k].scheme
                   /\ rissues[i].weak_type = ClassOf(k, ranswers[k].values[n]).weak_type
                   /\ rissues[i].detail = ClassOf(k, ranswers[k].values[n]).detail

----------------------------------------------------------------------------
(* Properties of the scan command *)

\* the scan types of the host whose scanner failed: its constructor or its
\* task raised
FailedScanners == {t \in Range(ScanTypes) : ktask[t] = "error" \/ t \in kraised}

\* the scan types of the host whose task returned and has been collected
CompletedScanners == {t \in Range(ScanTypes) : ktask[t] = "complete" /\ t \notin kraised}

\* C27: every call of save_state for a host is made when no task of another
\* scanner of that host is still running.
C27_NoPartialWrites ==
    \A i \in DOMAIN ksaves : ksaves[i].running \subseteq {ksaves[i].by}

\* C28: once async_scan is through with a host of which a scanner failed,
\* every failure is named in errors, every task that was created has ended
\* and been collected, and the document of the host is saved with the
\* section of every scanner that completed; async_scan never stops before
\* the last host, and at the end the document of every host is saved.
C28_SiblingIsolation ==
    /\ (kphase = "saved" /\ FailedScanners # {}) =>
          /\ FailedScanners \subseteq kerrors
          /\ \A t \in Range(ScanTypes) : ktask[t] \in {"error", "complete"}
          /\ Hosts[khost] \in kdone
          /\ \A t \in CompletedScanners : kstore[Hosts[khost]][t] = Scanned
    /\ (kphase = "end") => kdone = Range(Hosts)
    /\ (kphase # "end") => ENABLED CliNext

\* The second host is saved after the constructor of one of its scanners
\* and the task of another raised, with the section of the third, and the
\* first host was saved with a failed scanner before it.
C28_Witness ==
    /\ kphase = "saved"
    /\ khost = 2
    /\ ktask["fuzz"] = "error"
    /\ "acao-leak" \in kraised
    /\ "ports" \in CompletedScanners
    /\ kstore[Hosts[2]]["ports"] = Scanned
    /\ kstore[Hosts[2]]["fuzz"] = Loaded
    /\ Hosts[1] \in kdone
    /\ \E t \in Range(ScanTypes) : kstore[Hosts[1]][t] = Loaded

----------------------------------------------------------------------------
(* Properties of the state store *)

\* C30: after a port scan over an accepted range, whether or not the target
\* had a state file, every port of ports.expected is in the acknowledged
\* list of the document the scanner loaded, and none is in new_ports.
C30_ExpectedAcknowledged ==
    (pop = "scan" /\ ValidRange(scan_range)) =>
        \A p \in Range(Expected) :
            /\ p \in Range(acknowledged)
            /\ p \notin Range(new_ports)

\* what load_state returns for a target whose last saved document is given
LoadOfSaved(document) ==
    LoadPorts(document # NoDocument, IF document = NoDocument THEN <<>> ELSE document,
              <<>>).acknowledged

\* C29: what load_state returns for a target is the document last saved
\* for that target, or the default document if none was: a save for another
\* target does not change it.
C29_NoSharedState ==
    sloaded # <<>> => sloaded.document = LoadOfSaved(ssaved[sloaded.target])

----------------------------------------------------------------------------
(* Properties of the setup of a run *)

\* the setting is malformed for the ACAO scanner: no list of strings
MalformedList(value) == ~IsListOfStrings(value)

\* the setting is malformed for the fuzz scanner: neither a string nor a list
MalformedWordlist(value) == value.type # "string" /\ ~IsList(value)

\* C32: a run_async called under a malformed list-typed setting returns the
\* empty result: it does not raise, sends no probe and assigns nothing to
\* the document.
C32_FailFast ==
    /\ (qscanner = "acao" /\ (MalformedList(qendpoints) \/ MalformedList(qorigins)))
          => qsetup = ReturnsEmpty
    /\ (qscanner = "fuzz" /\ MalformedWordlist(qwordlist))
          => qsetup = ReturnsEmpty

----------------------------------------------------------------------------
(* Termination of a batch of probes *)

\* the values a semaphore of the model is created with
Limits == {PortsConcurrency} \cup ConcurrencySettings

\* no probe of the batch has started
BatchQueued == \A i \in Probes : ppc[i] = "queued"

\* every probe of the batch has returned
BatchReturned == \A i \in Probes : ppc[i] = "returned"

\* C33: a batch of gated probes whose semaphore was created with the value
\* c >= 1 comes to the state in which every probe has returned and the
\* semaphore has the value c again, whatever the attempts end in.
C33_Termination ==
    \A c \in Limits :
        (BatchQueued /\ Gated(pkind) /\ pvalue = c) ~> (BatchReturned /\ pvalue = c)

\* Two scan_path probes under a semaphore of value 1 have both returned,
\* the first after an answer and the second after three failed attempts,
\* and the value is 1 again.
C33_Witness ==
    /\ pkind = "path"
    /\ BatchReturned
    /\ pvalue = 1
    /\ Len(ptrace[1]) = 1
    /\ ptrace[1][1].kind = "response"
    /\ Len(ptrace[2]) = MaxRetries
    /\ ptrace[2][MaxRetries].kind = "error"

----------------------------------------------------------------------------
(* The confirmation probe of the ACAO classification *)

\* the host of a candidate: the host name of the URL it is, or the candidate
\* itself if it holds none
CandidateHost(text) ==
    IF ~UrlHostname(text).raises /\ UrlHostname(text).host # <<>>
    THEN UrlHostname(text).host
    ELSE text

\* "http://evil-" + host
CraftedFor(host) == HttpPrefix \o <<"e", "v", "i", "l", "-">> \o host

\* the allow-header of the answer to the confirmation probe holds the text
Confirmed(text) ==
    \E k \in 1..Len(ConfirmValues(cconfirm, CraftedFor(CandidateHost(cacao)), cacao)) :
        Contains(text, ConfirmValues(cconfirm, CraftedFor(CandidateHost(cacao)), cacao)[k])

\* what C34 says of a classified candidate
BroadReflectionRule ==
    IF \E k \in 1..Len(CandidateHost(cacao)) : CandidateHost(cacao)[k] = "."
    THEN /\ cresult.probes = 1
         /\ cresult.end = "issue"
               <=> (Confirmed(CraftedFor(CandidateHost(cacao))) \/ Confirmed(CandidateHost(cacao)))
         /\ cresult.end = "issue" =>
               /\ cresult.weak_type = "broad-reflection"
               /\ cresult.detail =
                     cacao \o <<" ", "(", "v", "u", "l", "n", "e", "r", "a", "b", "l", "e", " ",
                                "t", "o", " ">> \o CraftedFor(CandidateHost(cacao)) \o <<")">>
    ELSE /\ cresult.probes = 0
         /\ cresult.end # "issue"

----------------------------------------------------------------------------
(* Properties of the legacy reconciliation *)

\* what the legacy policy leaves of the statuses of the entries of an
\* identity that is not detected: the uncategorized ones are gone, wont_fix
\* has become fixed
LegacyLeft(statuses) ==
    LET NotOpen(status) == status # "uncategorized"
        left == SelectSeq(statuses, NotOpen)
    IN  [j \in 1..Len(left) |-> IF left[j] = "wont_fix" THEN "fixed" ELSE left[j]]

\* C35: after a run of a legacy scanner, a prior issue whose identity the
\* run did not detect is gone from the list if it was uncategorized, is
\* fixed if it was wont_fix and is there with its status otherwise; a prior
\* issue whose identity the run detected is still in the list.
C35_LegacyPolicy ==
    aop = "scan" =>
        \A k \in KeysOf(prior) :
            IF k \in DetectedKeys
            THEN Len(StatusesOf(issues, k)) >= Len(StatusesOf(prior, k))
            ELSE StatusesOf(issues, k) = LegacyLeft(StatusesOf(prior, k))

\* a run that detects nothing drops an uncategorized issue and turns a
\* wont_fix issue into a fixed one
C35_Witness ==
    /\ aop = "scan"
    /\ found = <<>>
    /\ \E i, j \in 1..Len(prior) :
          /\ prior[i].status = "uncategorized"
          /\ prior[j].status = "wont_fix"
          /\ StatusesOf(issues, IssueKey(prior[i])) = <<>>
          /\ StatusesOf(issues, IssueKey(prior[j])) = <<"fixed">>

----------------------------------------------------------------------------
(* Properties of the document over scans and ack sessions *)

\* the lists of the fuzz section
FuzzLists == AckLists \cup {"issues"}

\* the lists of the fuzz section of doc that hold the URL
ListsOf(doc, url) == {list \in FuzzLists : url \in Range(doc.fuzz[list])}

\* C36: after any sequence of fuzz scans and ack sessions a URL is in at
\* most one of fuzz.issues, fuzz.will_fix, fuzz.false_positive and
\* fuzz.wont_fix; a fuzz scan that finds an acknowledged URL again does not
\* put it back into fuzz.issues.
C36_FuzzPartition ==
    \A url \in Range(UrlOrder) : Cardinality(ListsOf(ddoc, url)) <= 1

\* the prompts of the last ack session that asked about the URL
PromptsOf(url) == {j \in 1..Len(dshown) : dshown[j] = url}

\* C39: an ack session asks about every URL that was in fuzz.issues when it
\* started exactly once; a URL answered will_fix, false_positive or wont_fix
\* is in that list afterwards and in no other, a URL answered skip is still
\* in fuzz.issues.
C39_AckSession ==
    dop = "ack" =>
        /\ \A url \in Range(dloaded.fuzz.issues) : Cardinality(PromptsOf(url)) = 1
        /\ \A j \in 1..Len(dshown) :
              IF danswers[j] = "skip"
              THEN "issues" \in ListsOf(ddoc, dshown[j])
              ELSE ListsOf(ddoc, dshown[j]) = {danswers[j]}

----------------------------------------------------------------------------
(* Properties of what an ACAO run returns *)

\* the identity had no entry in the list the run loaded
NewInRun(key) == key \notin KeysOf(prior)

\* an entry of the identity that the run loaded with another status is
\* uncategorized after the run
RegressedInRun(key) ==
    \E j \in 1..Len(StatusesOf(prior, key)) :
        /\ j <= Len(StatusesOf(issues, key))
        /\ StatusesOf(prior, key)[j] # "uncategorized"
        /\ StatusesOf(issues, key)[j] = "uncategorized"

\* C37: results["issues"] of an ACAO run holds exactly the identities that
\* are new in the run or regressed to uncategorized in it, each once; an
\* identity whose entries were loaded as uncategorized, will_fix or wont_fix
\* and that is detected again is not returned.
C37_ReturnedIssues ==
    aop = "scan" =>
        /\ Range(returned) = {key \in DetectedKeys : NewInRun(key) \/ RegressedInRun(key)}
        /\ \A i, j \in 1..Len(returned) : i # j => returned[i] # returned[j]
        /\ \A key \in DetectedKeys \cap KeysOf(prior) :
              Range(StatusesOf(prior, key)) \subseteq {"uncategorized", "will_fix", "wont_fix"}
                  => key \notin Range(returned)

\* a run returns a new identity and a regressed one, and not the one it
\* detects again as will_fix
C37_Witness ==
    /\ aop = "scan"
    /\ \E new, old \in DetectedKeys :
          /\ NewInRun(new)
          /\ new \in Range(returned)
          /\ ~NewInRun(old)
          /\ StatusesOf(prior, old) = <<"will_fix">>
          /\ old \notin Range(returned)

----------------------------------------------------------------------------
(* Properties of the progress counts *)

\* C38: the scanned count get_progress reports is at most the total it
\* reports; for an ACAO run, with the confirmation probes it sent,
\* endpoints_scanned is at most total_endpoints.
C38_Progress == rscanned <= rtotal

====
